---------------------------- MODULE Spec2Model ----------------------------
(***************************************************************************)
(* Stroke synthesis, augmentation, validation and refinement pipeline of   *)
(* ml_shapes (training/data_generation_system.py,                          *)
(* training/dataset_manager.py, api/detection_service.py).                 *)
(*                                                                         *)
(* A point is a pair <<x, y>> of integers (pixels).  Real-valued random    *)
(* draws of the code (random.uniform, np.random.normal) are inputs drawn   *)
(* from small named sets; real arithmetic is integer arithmetic with floor *)
(* division, except the class-proportion arithmetic of                     *)
(* validate_dataset_balance, which is IEEE-754 binary64 division.          *)
(*                                                                         *)
(* numpy arrays live in a heap (arrays): an ndarray object is a view       *)
(* [buf, off, len] on a buffer, so that in-place updates (+=) and basic    *)
(* slices (views) alias exactly as in numpy.  Metadata dicts live in a     *)
(* second heap (dicts).                                                    *)
(***************************************************************************)
EXTENDS Integers, Sequences, FiniteSets, TLC

VARIABLES
    pc,                 \* position of the running call
    arrays,             \* heap: buffer id -> sequence of points
    dicts,              \* heap: dict id -> metadata mapping
    stroke,             \* augment_stroke: the input StrokeData
    num_augmentations,  \* augment_stroke: the requested count
    augmented,          \* augment_stroke: the variant under construction
    augmented_strokes,  \* augment_stroke: the list being built
    selected_augs,      \* augment_stroke: transforms still to apply
    remaining,          \* augment_stroke: iterations of the for loop left
    applied,            \* transforms applied to the current variant, in order
    input0,             \* contents of the input stroke when the call began
    error,              \* exception raised by the running call, "" if none
    fn,                 \* pure-function calls: the function called
    args,               \* pure-function calls: its argument
    ret,                \* pure-function calls: its result
    strokes,            \* _generate_training_data: the list being built
    shape_index,        \* _generate_training_data: index of shape_type
    samples_done,       \* _generate_training_data: inner iterations run
    warnings,           \* the shape types logged by logging.warning
    valid_strokes       \* _validate_and_filter_data: the strokes kept

vars == <<pc, arrays, dicts, stroke, num_augmentations, augmented,
          augmented_strokes, selected_augs, remaining, applied, input0,
          error, fn, args, ret, strokes, shape_index, samples_done,
          warnings, valid_strokes>>

augVars == <<arrays, dicts, stroke, num_augmentations, augmented,
             augmented_strokes, selected_augs, remaining, applied, input0>>

callVars == <<fn, args, ret>>

bulkVars == <<strokes, shape_index, samples_done, warnings, valid_strokes>>

-----------------------------------------------------------------------------
(* Bounds of the model *)

\* longest input stroke of augment_stroke
MaxPoints == 10

\* largest num_augmentations
MaxAugmentations == 1

-----------------------------------------------------------------------------
(* Generic helpers *)

Min(a, b) == IF a <= b THEN a ELSE b

Max(a, b) == IF a >= b THEN a ELSE b

RECURSIVE SumSeq(_)
SumSeq(s) == IF s = <<>> THEN 0 ELSE Head(s) + SumSeq(Tail(s))

\* the sequence s without its first k elements / its first k elements
Drop(s, k) == SubSeq(s, k + 1, Len(s))

Take(s, k) == SubSeq(s, 1, k)

PAdd(p, q) == <<p[1] + q[1], p[2] + q[2]>>

PSub(p, q) == <<p[1] - q[1], p[2] - q[2]>>

\* Python's None, where a value is optional: <<>> is None, <<v>> is v
None == <<>>

\* np.mean(points, axis=0); nan on an empty array, where no point uses it
Mean(pts) ==
    IF pts = <<>> THEN <<0, 0>>
    ELSE <<SumSeq([i \in 1..Len(pts) |-> pts[i][1]]) \div Len(pts),
           SumSeq([i \in 1..Len(pts) |-> pts[i][2]]) \div Len(pts)>>

-----------------------------------------------------------------------------
(* The heap: numpy buffers, views on them, metadata dicts *)

NoView == [buf |-> 0, off |-> 0, len |-> 0]

NoStroke == [points |-> NoView, shape_label |-> "", metadata |-> 0]

\* the smallest id not in use
NewId(h) == CHOOSE i \in 1..(Cardinality(DOMAIN h) + 1) :
                /\ i \notin DOMAIN h
                /\ \A j \in 1..(i - 1) : j \in DOMAIN h

\* the points an ndarray object shows
Contents(arr, v) == [i \in 1..v.len |-> arr[v.buf][v.off + i]]

\* a fresh buffer holding pts, and the view on the whole of it
Alloc(arr, pts) == (NewId(arr) :> pts) @@ arr

WholeView(arr, pts) == [buf |-> NewId(arr), off |-> 0, len |-> Len(pts)]

\* in-place update of the points a view shows: point i becomes f[i]
StoreThrough(arr, v, f) ==
    [arr EXCEPT ![v.buf] =
        [k \in 1..Len(@) |->
            IF k > v.off /\ k <= v.off + v.len THEN f[k - v.off] ELSE @[k]]]

\* reference counting: buffers and dicts no live object refers to are freed
Collect(h, live) == [i \in (DOMAIN h) \cap live |-> h[i]]

LiveStrokes(s, aug, list) ==
    {s, aug} \cup {list[i] : i \in 1..Len(list)}

LiveBufs(s, aug, list) == {t.points.buf : t \in LiveStrokes(s, aug, list)}

LiveDicts(s, aug, list) == {t.metadata : t \in LiveStrokes(s, aug, list)}

\* what a stroke object shows: its points, label and metadata by value
Value(arr, dct, s) ==
    [points |-> Contents(arr, s.points),
     shape_label |-> s.shape_label,
     metadata |-> dct[s.metadata]]

-----------------------------------------------------------------------------
(* RealWorldDataAugmenter: the transforms.  Each takes the two heaps, the   *)
(* stroke object it is given and its random draws, and yields the heaps     *)
(* and the stroke object it returns, or the exception it raises.            *)

Ok(arr, dct, s) == [arrays |-> arr, dicts |-> dct, stroke |-> s, raised |-> ""]

Raised(arr, dct, s, e) ==
    [arrays |-> arr, dicts |-> dct, stroke |-> s, raised |-> e]

\* stroke.metadata.setdefault('augmentation', tag): an earlier tag is kept
SetTagOnce(dct, s, tag) ==
    [dct EXCEPT ![s.metadata] = @ @@ ("augmentation" :> tag)]

\* stroke.metadata['augmentation'] = tag
SetTag(dct, s, tag) ==
    [dct EXCEPT ![s.metadata] = ("augmentation" :> tag) @@ @]

\* stroke.points = <a new array holding pts>
Rebind(arr, s, pts) == [s EXCEPT !.points = WholeView(arr, pts)]

\* self.augmentations, in the order of the list
Augmentations ==
    <<"_add_noise", "_scale_transform", "_rotate_transform",
      "_shear_transform", "_add_gaps", "_simulate_pen_lift",
      "_time_pressure_variation">>

\* the draws of np.random.normal: one offset per point
GaussianNoise(i) == <<1 + (i % 2), -1>>

OutlierNoise == <<10, -7>>

\* random.uniform(-5, 5), the end of the drift
DriftEnds == {5}

\* random.uniform(-1, 1), the factor of the drift in y
DriftFactors == {-1}

\* np.linspace(0, stop, num)[i], i from 0
Linspace0(stop, num, i) == IF num <= 1 THEN 0 ELSE (stop * i) \div (num - 1)

\* the draws of _add_noise on a stroke of n points
NoiseDraws(n) ==
    {[noise_type |-> "gaussian", outliers |-> {}, drift_end |-> 0, factor |-> 0]}
    \cup {[noise_type |-> "salt_pepper", outliers |-> o, drift_end |-> 0,
           factor |-> 0] :
            o \in {x \in {{}, {0}, {n - 1}, {0, n - 1}} :
                        Cardinality(x) <= n \div 10}}
    \cup {[noise_type |-> "drift", outliers |-> {}, drift_end |-> e,
           factor |-> f] : e \in DriftEnds, f \in DriftFactors}

NoiseTag(noise_type) ==
    CASE noise_type = "gaussian" -> "noise_gaussian"
      [] noise_type = "salt_pepper" -> "noise_salt_pepper"
      [] OTHER -> "noise_drift"

add_noise(arr, dct, s, rnd) ==
    LET v == s.points
        pts == Contents(arr, v)
        n == v.len
        noisy ==
            CASE rnd.noise_type = "gaussian" ->
                    [i \in 1..n |-> PAdd(pts[i], GaussianNoise(i))]
              [] rnd.noise_type = "salt_pepper" ->
                    [i \in 1..n |-> IF (i - 1) \in rnd.outliers
                                    THEN PAdd(pts[i], OutlierNoise)
                                    ELSE pts[i]]
              [] OTHER ->
                    [i \in 1..n |->
                        LET d == Linspace0(rnd.drift_end, n, i - 1)
                        IN  PAdd(pts[i], <<d, d * rnd.factor>>)]
    IN  Ok(StoreThrough(arr, v, noisy),
           SetTag(dct, s, NoiseTag(rnd.noise_type)), s)

\* random.uniform(0.7, 1.4), in hundredths
ScaleFactors == {70, 140}

ScaleTag(f) == IF f = 70 THEN "scale_0.70" ELSE "scale_1.40"

scale_transform(arr, dct, s, scale_factor) ==
    LET pts == Contents(arr, s.points)
        center == Mean(pts)
        scaled == [i \in 1..Len(pts) |->
                    <<center[1] + (scale_factor * (pts[i][1] - center[1])) \div 100,
                      center[2] + (scale_factor * (pts[i][2] - center[2])) \div 100>>]
    IN  Ok(Alloc(arr, scaled), SetTag(dct, s, ScaleTag(scale_factor)),
           Rebind(arr, s, scaled))

\* random.uniform(-pi/4, pi/4): angles of rational cosine and sine (over 5)
Angles == {[cos |-> 4, sin |-> 3, tag |-> "rotate_36.9deg"],
           [cos |-> 4, sin |-> -3, tag |-> "rotate_-36.9deg"]}

rotate_transform(arr, dct, s, angle) ==
    LET pts == Contents(arr, s.points)
        center == Mean(pts)
        rotated == [i \in 1..Len(pts) |->
            LET c == PSub(pts[i], center)
            IN  <<(angle.cos * c[1] - angle.sin * c[2]) \div 5 + center[1],
                  (angle.sin * c[1] + angle.cos * c[2]) \div 5 + center[2]>>]
    IN  Ok(Alloc(arr, rotated), SetTag(dct, s, angle.tag),
           Rebind(arr, s, rotated))

\* random.uniform(-0.2, 0.2) twice, in hundredths
Shears == {[x |-> 20, y |-> -20, tag |-> "shear_0.20_-0.20"]}

shear_transform(arr, dct, s, shear) ==
    LET pts == Contents(arr, s.points)
        sheared == [i \in 1..Len(pts) |->
            <<pts[i][1] + (shear.x * pts[i][2]) \div 100,
              (shear.y * pts[i][1]) \div 100 + pts[i][2]>>]
    IN  Ok(Alloc(arr, sheared), SetTag(dct, s, shear.tag),
           Rebind(arr, s, sheared))

\* np.concatenate([points[:gap_start], points[gap_end:]])
RemoveGap(pts, gap) ==
    LET gap_end == Min(gap.start + gap.length, Len(pts))
    IN  Take(pts, gap.start) \o Drop(pts, gap_end)

RECURSIVE RemoveGaps(_, _)
RemoveGaps(pts, gaps) ==
    IF gaps = <<>> THEN pts
    ELSE RemoveGaps(RemoveGap(pts, Head(gaps)), Tail(gaps))

\* random.randint(2, 5): the two ends of the range
GapLengths == {2, 5}

\* gap_start = random.randint(0, len(stroke.points) - 5)
Gap(n) == [start : 0..(n - 5), length : GapLengths]

\* the draws of _add_gaps on n points: num_gaps in 0..2 gaps, each start
\* drawn against the length the stroke has when its turn comes
GapDraws(n) ==
    {<<>>}
    \cup {<<g>> : g \in Gap(n)}
    \cup UNION {{<<g, h>> : h \in Gap(n - (Min(g.start + g.length, n) - g.start))} :
                g \in Gap(n)}

add_gaps(arr, dct, s, gaps) ==
    IF s.points.len < 10 THEN Ok(arr, dct, s)
    ELSE LET pts == RemoveGaps(Contents(arr, s.points), gaps)
         IN  IF gaps = <<>>
             THEN Ok(arr, SetTag(dct, s, "gaps"), s)
             ELSE Ok(Alloc(arr, pts), SetTag(dct, s, "gaps"), Rebind(arr, s, pts))

\* random.uniform(0.05, 0.2), in hundredths
CutAmounts == {5, 20}

\* the draws of _simulate_pen_lift: random.random() < 0.3, random.choice
\* of the side, the amount
PenLiftDraws ==
    {[fire |-> FALSE, cut_start |-> FALSE, cut_amount |-> 5]}
    \cup [fire : {TRUE}, cut_start : BOOLEAN, cut_amount : CutAmounts]

simulate_pen_lift(arr, dct, s, rnd) ==
    IF ~rnd.fire THEN Ok(arr, dct, s)
    ELSE LET v == s.points
             cut_points == IF rnd.cut_start
                           THEN (v.len * rnd.cut_amount) \div 100
                           ELSE (v.len * (100 - rnd.cut_amount)) \div 100
             sliced == IF rnd.cut_start
                       THEN [v EXCEPT !.off = @ + cut_points,
                                      !.len = @ - cut_points]
                       ELSE [v EXCEPT !.len = cut_points]
         IN  Ok(arr, SetTag(dct, s, "pen_lift"), [s EXCEPT !.points = sliced])

\* random.uniform(0.5, 2.0), in hundredths
Densities == {50, 100, 200}

DensityTag(d) ==
    CASE d = 50 -> "resample_0.50"
      [] d = 100 -> "resample_1.00"
      [] OTHER -> "resample_2.00"

\* np.interp(np.linspace(0, n - 1, m), range(n), column) on both columns
Resample(pts, m) ==
    LET n == Len(pts)
    IN  [j \in 1..m |->
            LET num == (j - 1) * (n - 1)
                lo == num \div (m - 1)
                rest == num % (m - 1)
                a == pts[lo + 1]
                b == IF lo + 2 <= n THEN pts[lo + 2] ELSE a
            IN  <<a[1] + (rest * (b[1] - a[1])) \div (m - 1),
                  a[2] + (rest * (b[2] - a[2])) \div (m - 1)>>]

\* the draws of _time_pressure_variation: random.random() < 0.4, the density
TimePressureDraws ==
    {[fire |-> FALSE, target_density |-> 100]}
    \cup [fire : {TRUE}, target_density : Densities]

time_pressure_variation(arr, dct, s, rnd) ==
    IF ~rnd.fire THEN Ok(arr, dct, s)
    ELSE LET n == s.points.len
             new_length == Max(5, Min((n * rnd.target_density) \div 100, n * 3))
         IN  IF new_length = n
             THEN Ok(arr, SetTag(dct, s, DensityTag(rnd.target_density)), s)
             ELSE IF n = 0
                  \* np.interp: "array of sample points is empty"
                  THEN Raised(arr, dct, s, "ValueError")
                  ELSE LET pts == Resample(Contents(arr, s.points), new_length)
                       IN  Ok(Alloc(arr, pts),
                              SetTag(dct, s, DensityTag(rnd.target_density)),
                              Rebind(arr, s, pts))

-----------------------------------------------------------------------------
(* RealWorldDataAugmenter.augment_stroke *)

\* the copy without .copy(): StrokeData(points=stroke.points, ...,
\* metadata=stroke.metadata)
CopyStrokeShared(arr, dct, s) ==
    [arrays |-> arr, dicts |-> dct,
     stroke |-> [points |-> s.points, shape_label |-> s.shape_label,
                 metadata |-> s.metadata]]

\* StrokeData(points=stroke.points.copy(), shape_label=stroke.shape_label,
\*            metadata=stroke.metadata.copy())
CopyStroke(arr, dct, s) ==
    LET pts == Contents(arr, s.points)
    IN  [arrays |-> Alloc(arr, pts),
         dicts |-> (NewId(dct) :> dct[s.metadata]) @@ dct,
         stroke |-> [points |-> WholeView(arr, pts),
                     shape_label |-> s.shape_label,
                     metadata |-> NewId(dct)]]

\* random.sample(self.augmentations, random.randint(1, 3)): between one and
\* three distinct transforms, in the order the sample draws them
Samples ==
    {q \in UNION {[1..k -> 1..Len(Augmentations)] : k \in 1..3} :
        \A i, j \in DOMAIN q : i # j => q[i] # q[j]}

\* the input strokes: n points along a zigzag
InputPoints(n) == [i \in 1..n |-> <<20 * i, 30 + 10 * (i % 2)>>]

\* the metadata of the input stroke: a key of its own and the pressure
\* series _add_human_variations wrote, one entry per point
InputMetadata(n) ==
    ("source" :> "user") @@ ("pressure" :> [i \in 1..n |-> 70 + 60 * (i % 2)])

IdleCall == /\ fn = "" /\ args = <<>> /\ ret = <<>>

\* no _generate_training_data call is in progress
IdleBulk ==
    /\ strokes = <<>>
    /\ shape_index = 0
    /\ samples_done = 0
    /\ warnings = <<>>
    /\ valid_strokes = <<>>

InitAugment ==
    /\ pc = "augment_stroke"
    /\ \E n \in 0..MaxPoints :
        /\ arrays = (1 :> InputPoints(n))
        /\ stroke = [points |-> [buf |-> 1, off |-> 0, len |-> n],
                     shape_label |-> "line", metadata |-> 1]
        /\ input0 = [points |-> InputPoints(n), shape_label |-> "line",
                     metadata |-> InputMetadata(n)]
        /\ dicts = (1 :> InputMetadata(n))
    /\ num_augmentations \in 0..MaxAugmentations
    /\ augmented = NoStroke
    /\ augmented_strokes = <<>>
    /\ selected_augs = <<>>
    /\ remaining = 0
    /\ applied = <<>>
    /\ error = ""
    /\ IdleCall
    /\ IdleBulk

\* augmented_strokes = [stroke]
AugmentEnter ==
    /\ pc = "augment_stroke"
    /\ augmented_strokes' = <<stroke>>
    /\ remaining' = num_augmentations
    /\ pc' = "loop"
    /\ UNCHANGED <<arrays, dicts, stroke, num_augmentations, augmented,
                   selected_augs, applied, input0, error, fn, args, ret,
                   bulkVars>>

\* one pass of the for loop up to the choice of the transforms
AugmentCopy ==
    /\ pc = "loop"
    /\ remaining > 0
    /\ LET c == CopyStroke(arrays, dicts, stroke)
       IN  /\ arrays' = c.arrays
           /\ dicts' = c.dicts
           /\ augmented' = c.stroke
    /\ \E q \in Samples : selected_augs' = [i \in DOMAIN q |-> Augmentations[q[i]]]
    /\ applied' = <<>>
    /\ pc' = "apply"
    /\ UNCHANGED <<stroke, num_augmentations, augmented_strokes, remaining,
                   input0, error, fn, args, ret,
                   bulkVars>>

\* augmented = aug_func(augmented), or the exception aug_func raises, which
\* ends the call: its locals are dropped
Applying(name) ==
    /\ pc = "apply"
    /\ selected_augs # <<>>
    /\ Head(selected_augs) = name

Applies(name, r) ==
    /\ IF r.raised # ""
       THEN /\ pc' = "raised"
            /\ error' = r.raised
            /\ augmented' = NoStroke
            /\ augmented_strokes' = <<>>
            /\ selected_augs' = <<>>
            /\ remaining' = 0
            /\ applied' = Append(applied, name)
            /\ arrays' = Collect(r.arrays, LiveBufs(stroke, stroke, <<>>))
            /\ dicts' = Collect(r.dicts, LiveDicts(stroke, stroke, <<>>))
       ELSE /\ pc' = pc
            /\ error' = error
            /\ augmented' = r.stroke
            /\ selected_augs' = Tail(selected_augs)
            /\ applied' = Append(applied, name)
            /\ arrays' = Collect(r.arrays,
                                 LiveBufs(stroke, r.stroke, augmented_strokes))
            /\ dicts' = Collect(r.dicts,
                                LiveDicts(stroke, r.stroke, augmented_strokes))
            /\ UNCHANGED <<augmented_strokes, remaining>>
    /\ UNCHANGED <<bulkVars, stroke, num_augmentations, input0, fn, args, ret>>

AddNoise ==
    /\ Applying("_add_noise")
    /\ \E rnd \in NoiseDraws(augmented.points.len) :
        Applies("_add_noise", add_noise(arrays, dicts, augmented, rnd))

ScaleTransform ==
    /\ Applying("_scale_transform")
    /\ \E f \in ScaleFactors :
        Applies("_scale_transform", scale_transform(arrays, dicts, augmented, f))

RotateTransform ==
    /\ Applying("_rotate_transform")
    /\ \E a \in Angles :
        Applies("_rotate_transform", rotate_transform(arrays, dicts, augmented, a))

ShearTransform ==
    /\ Applying("_shear_transform")
    /\ \E sh \in Shears :
        Applies("_shear_transform", shear_transform(arrays, dicts, augmented, sh))

AddGaps ==
    /\ Applying("_add_gaps")
    /\ \E gaps \in IF augmented.points.len < 10 THEN {<<>>}
                   ELSE GapDraws(augmented.points.len) :
        Applies("_add_gaps", add_gaps(arrays, dicts, augmented, gaps))

SimulatePenLift ==
    /\ Applying("_simulate_pen_lift")
    /\ \E rnd \in PenLiftDraws :
        Applies("_simulate_pen_lift",
                simulate_pen_lift(arrays, dicts, augmented, rnd))

TimePressureVariation ==
    /\ Applying("_time_pressure_variation")
    /\ \E rnd \in TimePressureDraws :
        Applies("_time_pressure_variation",
                time_pressure_variation(arrays, dicts, augmented, rnd))

\* augmented_strokes.append(augmented)
AugmentAppend ==
    /\ pc = "apply"
    /\ selected_augs = <<>>
    /\ augmented_strokes' = Append(augmented_strokes, augmented)
    /\ remaining' = remaining - 1
    /\ augmented' = NoStroke
    /\ pc' = "loop"
    /\ UNCHANGED <<arrays, dicts, stroke, num_augmentations, selected_augs,
                   applied, input0, error, fn, args, ret,
                   bulkVars>>

\* return augmented_strokes
AugmentReturn ==
    /\ pc = "loop"
    /\ remaining = 0
    /\ pc' = "done"
    /\ UNCHANGED <<bulkVars, augVars, error, fn, args, ret>>

NextAugment ==
    \/ AugmentEnter
    \/ AugmentCopy
    \/ AddNoise
    \/ ScaleTransform
    \/ RotateTransform
    \/ ShearTransform
    \/ AddGaps
    \/ SimulatePenLift
    \/ TimePressureVariation
    \/ AugmentAppend
    \/ AugmentReturn

SpecAugment == InitAugment /\ [][NextAugment]_vars

-----------------------------------------------------------------------------
(* Properties of augment_stroke *)

InAugment == stroke # NoStroke

\* C1, as claimed: for every stroke and every count >= 0 the call returns a
\* list of exactly count + 1 strokes whose first element is the original
\* stroke, untouched.
AugmentReturnsOriginalAndVariants ==
    InAugment =>
        /\ pc # "raised"
        /\ pc = "done" =>
            /\ Len(augmented_strokes) = num_augmentations + 1
            /\ augmented_strokes[1] = stroke
            /\ Value(arrays, dicts, augmented_strokes[1]) = input0

\* C2: at every point of a call of augment_stroke, and after it, the input
\* stroke shows the points, label and metadata it showed when the call began.
InputNeverMutated ==
    InAugment => Value(arrays, dicts, stroke) = input0

InputNeverMutatedWitness ==
    /\ pc = "done"
    /\ Len(augmented_strokes) = 2
    /\ \E i \in 1..Len(applied) : applied[i] = "_add_noise"
    /\ \E i \in 1..Len(applied) : applied[i] = "_simulate_pen_lift"
    /\ Value(arrays, dicts, augmented_strokes[2]).points # input0.points
    /\ "augmentation" \in DOMAIN dicts[augmented_strokes[2].metadata]

\* C16, as claimed: a call of augment_stroke on an empty stroke never
\* raises, whatever the count and the transforms selected, and every variant
\* it builds is an empty stroke.  Violated: _time_pressure_variation, when
\* it resamples, asks np.interp for 5 points of an empty stroke, which
\* raises ValueError.
EmptyStrokeIsNoOp ==
    (InAugment /\ input0.points = <<>>) =>
        /\ pc # "raised"
        /\ \A i \in 2..Len(augmented_strokes) :
            Value(arrays, dicts, augmented_strokes[i]).points = <<>>

\* the place of a transform in self.augmentations
PipelineIndex(name) ==
    CHOOSE i \in DOMAIN Augmentations : Augmentations[i] = name

\* C21, as claimed: the transforms applied to a variant are at most 3,
\* distinct, and applied in the order in which they stand in
\* self.augmentations.  Violated: random.sample returns its selection in
\* the order it draws it, so _rotate_transform may run before _add_noise.
TransformsInPipelineOrder ==
    InAugment =>
        /\ Len(applied) <= 3
        /\ \A i, j \in DOMAIN applied :
            i < j => PipelineIndex(applied[i]) < PipelineIndex(applied[j])

\* the tags a transform writes
TagsOf(name) ==
    CASE name = "_add_noise" ->
            {NoiseTag(t) : t \in {"gaussian", "salt_pepper", "drift"}}
      [] name = "_scale_transform" -> {ScaleTag(f) : f \in ScaleFactors}
      [] name = "_rotate_transform" -> {a.tag : a \in Angles}
      [] name = "_shear_transform" -> {sh.tag : sh \in Shears}
      [] name = "_add_gaps" -> {"gaps"}
      [] name = "_simulate_pen_lift" -> {"pen_lift"}
      [] OTHER -> {DensityTag(d) : d \in Densities}

\* the transforms that write their tag on every run
AlwaysTag ==
    {"_add_noise", "_scale_transform", "_rotate_transform",
     "_shear_transform"}

\* a variant has been appended; applied is the sequence of its transforms
VariantBuilt ==
    /\ pc \in {"loop", "done"}
    /\ Len(augmented_strokes) >= 2

\* the metadata of the variant appended last
VariantMetadata == dicts[augmented_strokes[Len(augmented_strokes)].metadata]

\* C22, as claimed: in every variant the tag is present and is a tag of the
\* last transform applied to the variant.  Violated: _simulate_pen_lift and
\* _time_pressure_variation write the tag only when they fire, _add_gaps
\* only on 10 points or more.
TagNamesLastTransform ==
    VariantBuilt =>
        /\ "augmentation" \in DOMAIN VariantMetadata
        /\ VariantMetadata["augmentation"]
                \in TagsOf(applied[Len(applied)])

\* C22, what the code ensures instead: a transform either leaves the metadata as it is or sets
\* the tag to a tag of its own, and the first four transforms always set
\* it; so in a variant the tag, if present, is a tag of the last transform
\* that wrote one, no transform after that one being among the first four,
\* and it is absent only if none of the first four was applied; the other
\* entries of the metadata are those of the input.
TagNamesLastWriter ==
    /\ [][(pc = "apply" /\ pc' = "apply") =>
            LET name == applied'[Len(applied')]
                before == dicts[augmented.metadata]
                after == dicts'[augmented'.metadata]
            IN  /\ \/ after = before
                   \/ \E t \in TagsOf(name) :
                        after = ("augmentation" :> t) @@ before
                /\ name \in AlwaysTag =>
                        /\ "augmentation" \in DOMAIN after
                        /\ after["augmentation"] \in TagsOf(name)]_vars
    /\ [](VariantBuilt =>
            /\ \A k \in DOMAIN input0.metadata :
                k \in DOMAIN VariantMetadata
                /\ VariantMetadata[k] = input0.metadata[k]
            /\ DOMAIN VariantMetadata
                    \subseteq DOMAIN input0.metadata \cup {"augmentation"}
            /\ IF "augmentation" \in DOMAIN VariantMetadata
               THEN \E i \in DOMAIN applied :
                        /\ VariantMetadata["augmentation"] \in TagsOf(applied[i])
                        /\ \A j \in (i + 1)..Len(applied) :
                                applied[j] \notin AlwaysTag
               ELSE \A i \in DOMAIN applied : applied[i] \notin AlwaysTag)

\* noise, then a pen-lift that did not fire: the tag is the one of the noise
TagWitness ==
    /\ pc = "done"
    /\ applied = <<"_add_noise", "_simulate_pen_lift">>
    /\ Len(augmented_strokes) = 2
    /\ VariantMetadata["augmentation"] \in TagsOf("_add_noise")

\* the transform `name` runs in this step and returns
Runs(name) == Applying(name) /\ pc' = "apply"

PointsBefore == Contents(arrays, augmented.points)

PointsAfter == Contents(arrays', augmented'.points)

TagAfter ==
    IF "augmentation" \in DOMAIN dicts'[augmented'.metadata]
    THEN dicts'[augmented'.metadata]["augmentation"]
    ELSE ""

\* C23, as claimed: when temporal resampling fires on a stroke of n points,
\* the resampled stroke has m points with 5 <= m <= 3 * n, for every n and
\* every density factor.
ResampleLengthBounded ==
    [][(Runs("_time_pressure_variation") /\ TagAfter \in TagsOf("_time_pressure_variation"))
        => /\ 5 <= Len(PointsAfter)
           /\ Len(PointsAfter) <= 3 * Len(PointsBefore)]_vars

\* C23, what the code ensures instead: the lower bound is applied last, so
\* m is at least 5 and at most the larger of 5 and 3 * n.
ResampleLengthAtLeastFive ==
    [][(Runs("_time_pressure_variation") /\ TagAfter \in TagsOf("_time_pressure_variation"))
        => /\ 5 <= Len(PointsAfter)
           /\ Len(PointsAfter) <= Max(5, 3 * Len(PointsBefore))]_vars

ResampleWitness ==
    /\ pc = "done"
    /\ applied = <<"_time_pressure_variation">>
    /\ Len(input0.points) = 1
    /\ Len(augmented_strokes) = 2
    /\ augmented_strokes[2].points.len = 5

\* C24, as claimed: when pen-lift truncation fires on a stroke of n points it
\* removes a contiguous run of r points from the start or from the end with
\* 0.05 * n <= r <= 0.20 * n, and the remaining points keep their order.
PenLiftRemovesFiveToTwentyPercent ==
    [][(Runs("_simulate_pen_lift") /\ TagAfter = "pen_lift")
        => LET n == Len(PointsBefore)
               r == n - Len(PointsAfter)
           IN  /\ 5 * n <= 100 * r
               /\ 100 * r <= 20 * n
               /\ \/ PointsAfter = Drop(PointsBefore, r)
                  \/ PointsAfter = Take(PointsBefore, n - r)]_vars

\* C24, what the code ensures instead: the run is cut from one end and the
\* rest keeps its order, but its length is the fraction rounded down for a
\* cut at the start and rounded up for a cut at the end.
PenLiftRemovesRoundedFraction ==
    [][(Runs("_simulate_pen_lift") /\ TagAfter = "pen_lift")
        => LET n == Len(PointsBefore)
               r == n - Len(PointsAfter)
           IN  /\ (5 * n) \div 100 <= r
               /\ r <= (20 * n + 99) \div 100
               /\ \/ PointsAfter = Drop(PointsBefore, r)
                  \/ PointsAfter = Take(PointsBefore, n - r)]_vars

PenLiftWitness ==
    /\ pc = "done"
    /\ applied = <<"_simulate_pen_lift">>
    /\ Len(input0.points) = 3
    /\ Len(augmented_strokes) = 2
    /\ augmented_strokes[2].points.len = 2

\* C27, as claimed: on a stroke of at least 10 points _add_gaps removes 0 to 2
\* contiguous ranges of 2 to 5 points each and always leaves at least one
\* point; on a stroke of fewer than 10 points it leaves the points unchanged.
GapsNeverEmptyAStroke ==
    [][Runs("_add_gaps")
        => LET n == Len(PointsBefore)
               r == n - Len(PointsAfter)
           IN  IF n < 10 THEN PointsAfter = PointsBefore
               ELSE /\ r = 0 \/ (2 <= r /\ r <= 10)
                    /\ Len(PointsAfter) >= 1]_vars

\* C27, what the code ensures instead: the same without the last conjunct.
GapsRemoveUpToTwoRanges ==
    [][Runs("_add_gaps")
        => LET n == Len(PointsBefore)
               r == n - Len(PointsAfter)
           IN  IF n < 10 THEN PointsAfter = PointsBefore
               ELSE r = 0 \/ (2 <= r /\ r <= 10)]_vars

GapsWitness ==
    /\ pc = "done"
    /\ applied = <<"_add_gaps">>
    /\ Len(input0.points) = 10
    /\ Len(augmented_strokes) = 2
    /\ augmented_strokes[2].points.len = 0

\* C30, as claimed: in every stroke augment_stroke returns for a generated
\* stroke, the pressure series in the metadata has exactly one entry per
\* point of the stroke, after any sequence of transforms.
PressurePerPoint ==
    pc \in {"loop", "done"} =>
        \A i \in DOMAIN augmented_strokes :
            /\ "pressure" \in DOMAIN dicts[augmented_strokes[i].metadata]
            /\ Len(dicts[augmented_strokes[i].metadata]["pressure"])
                = augmented_strokes[i].points.len

\* C30, what the code ensures instead: no transform touches the pressure
\* series, every variant carries the series of the input stroke.
PressureOfTheInput ==
    pc \in {"loop", "done"} =>
        \A i \in DOMAIN augmented_strokes :
            /\ "pressure" \in DOMAIN dicts[augmented_strokes[i].metadata]
            /\ dicts[augmented_strokes[i].metadata]["pressure"]
                = input0.metadata["pressure"]

PressureWitness ==
    /\ pc = "done"
    /\ applied = <<"_add_gaps">>
    /\ Len(augmented_strokes) = 2
    /\ augmented_strokes[2].points.len = 5
    /\ Len(dicts[augmented_strokes[2].metadata]["pressure"]) = 10

-----------------------------------------------------------------------------
(* Fixed-point arithmetic of the refiner and the validator: lengths in      *)
(* hundredths of a pixel, angles in 1/10000 radian, cosines in 1/10000.     *)

\* hundredths per pixel
Unit == 100

\* the scale of angles and cosines
Scale == 10000

Abs(x) == IF x < 0 THEN -x ELSE x

\* floor of the square root, by bisection on lo <= sqrt(x) < hi
RECURSIVE SqrtBetween(_, _, _)
SqrtBetween(x, lo, hi) ==
    IF hi - lo <= 1 THEN lo
    ELSE LET mid == (lo + hi) \div 2
         IN  IF mid * mid <= x THEN SqrtBetween(x, mid, hi)
             ELSE SqrtBetween(x, lo, mid)

ISqrt(x) == SqrtBetween(x, 0, 46341)

\* np.linalg.norm of the vector from q to p, both in hundredths
Norm(p, q) ==
    ISqrt((p[1] - q[1]) * (p[1] - q[1]) + (p[2] - q[2]) * (p[2] - q[2]))

\* pi/2, pi and 2 pi in 1/10000 radian
HalfPi == 15708

Pi == 31416

TwoPi == 62832

\* cos on [0, pi/2]: 1 - y/2 (1 - y/12 (1 - y/30 (1 - y/56))), y = x^2
CosFirstQuadrant(x) ==
    LET y == (x * x) \div Scale
        t4 == Scale - y \div 56
        t3 == Scale - (y * t4) \div (30 * Scale)
        t2 == Scale - (y * t3) \div (12 * Scale)
    IN  Scale - (y * t2) \div (2 * Scale)

\* np.cos on [0, 2 pi], by the symmetries of the cosine
Cos(a) ==
    LET b == IF a > Pi THEN TwoPi - a ELSE a
    IN  IF b > HalfPi THEN -CosFirstQuadrant(Pi - b) ELSE CosFirstQuadrant(b)

\* np.sin on [0, 2 pi]: sin(a) = cos(a - pi/2)
Sin(a) == IF a >= HalfPi THEN Cos(a - HalfPi) ELSE Cos(HalfPi - a)

\* np.cos and np.sin of any angle
CosAny(a) == Cos(a % TwoPi)

SinAny(a) == Sin(a % TwoPi)

-----------------------------------------------------------------------------
(* ShapeRefinementService (api/detection_service.py) *)

Xs(points) == {points[i][1] : i \in 1..Len(points)}

Ys(points) == {points[i][2] : i \in 1..Len(points)}

SetMin(S) == CHOOSE x \in S : \A y \in S : x <= y

SetMax(S) == CHOOSE x \in S : \A y \in S : x >= y

\* refine_rectangle with np.min and np.max taken without axis=0
refine_rectangle_noaxis(points) ==
    IF Len(points) = 0 THEN points
    ELSE LET lo == SetMin(Xs(points) \cup Ys(points))
             hi == SetMax(Xs(points) \cup Ys(points))
         IN  <<<<lo, lo>>, <<hi, lo>>, <<hi, hi>>, <<lo, hi>>, <<lo, lo>>>>

refine_rectangle(points) ==
    IF Len(points) = 0 THEN points
    ELSE LET min_x == SetMin(Xs(points))
             min_y == SetMin(Ys(points))
             max_x == SetMax(Xs(points))
             max_y == SetMax(Ys(points))
         IN  <<<<min_x, min_y>>, <<max_x, min_y>>, <<max_x, max_y>>,
               <<min_x, max_y>>, <<min_x, min_y>>>>

\* number of points of the refined circle
CirclePoints == 64

\* np.mean(points, axis=0), in hundredths of a pixel
Centroid(points) ==
    <<(Unit * SumSeq([i \in 1..Len(points) |-> points[i][1]])) \div Len(points),
      (Unit * SumSeq([i \in 1..Len(points) |-> points[i][2]])) \div Len(points)>>

\* np.linalg.norm(points - center, axis=1), in hundredths
Distances(points, center) ==
    [i \in 1..Len(points) |->
        Norm(<<Unit * points[i][1], Unit * points[i][2]>>, center)]

\* np.mean(distances)
MeanRadius(points) ==
    SumSeq(Distances(points, Centroid(points))) \div Len(points)

\* np.linspace(0, 2*np.pi, 64)[k], k from 0
CircleAngle(k) == (TwoPi * k) \div (CirclePoints - 1)

\* refine_circle with the radius of refine_star: np.max(distances)
refine_circle_max(points) ==
    IF Len(points) = 0 THEN points
    ELSE LET center == Centroid(points)
             d == Distances(points, center)
             radius == SetMax({d[i] : i \in 1..Len(d)})
         IN  [k \in 1..CirclePoints |->
                <<center[1] + (radius * Cos(CircleAngle(k - 1))) \div Scale,
                  center[2] + (radius * Sin(CircleAngle(k - 1))) \div Scale>>]

\* the refined circle, in hundredths of a pixel
refine_circle(points) ==
    IF Len(points) = 0 THEN points
    ELSE LET center == Centroid(points)
             radius == MeanRadius(points)
         IN  [k \in 1..CirclePoints |->
                <<center[1] + (radius * Cos(CircleAngle(k - 1))) \div Scale,
                  center[2] + (radius * Sin(CircleAngle(k - 1))) \div Scale>>]

\* refine_line with end = points[1]
refine_line_second(points) ==
    IF Len(points) < 2 THEN points
    ELSE <<points[1], points[2]>>

refine_line(points) ==
    IF Len(points) < 2 THEN points
    ELSE <<points[1], points[Len(points)]>>

\* twice 0.5 * abs(np.cross(v1, v2)): the area in half square pixels
triangle_area(t) ==
    IF Len(t) # 3 THEN 0
    ELSE LET v1 == PSub(t[2], t[1])
             v2 == PSub(t[3], t[1])
         IN  Abs(v1[1] * v2[2] - v1[2] * v2[1])

\* the cap on the number of sampled points
SampleCap == 20

\* np.linspace with the step rounded down before it is multiplied
SampleIndicesStride(n) ==
    LET sample_size == Min(n, SampleCap)
    IN  [i \in 1..sample_size |->
            (i - 1) * ((n - 1) \div (sample_size - 1))]

\* points[np.linspace(0, len(points)-1, sample_size, dtype=int)]
SampleIndices(n) ==
    LET sample_size == Min(n, SampleCap)
    IN  [i \in 1..sample_size |->
            IF i = sample_size THEN n - 1
            ELSE ((i - 1) * (n - 1)) \div (sample_size - 1)]

SamplePoints(points) ==
    LET indices == SampleIndices(Len(points))
    IN  [i \in 1..Len(indices) |-> points[indices[i] + 1]]

\* Consider with >=: among triples of equal area the last one wins
ConsiderLast(best, triangle) ==
    LET area == triangle_area(triangle)
    IN  IF area >= best.max_area
        THEN [max_area |-> area, best_triangle |-> triangle]
        ELSE best

\* if area > max_area: max_area = area; best_triangle = triangle
Consider(best, triangle) ==
    LET area == triangle_area(triangle)
    IN  IF area > best.max_area
        THEN [max_area |-> area, best_triangle |-> triangle]
        ELSE best

\* the three nested loops over i < j < k, indices from 1 (each step tests
\* its running maximum, which makes it be evaluated before the next step)
RECURSIVE LoopK(_, _, _, _, _)
LoopK(sp, i, j, k, best) ==
    IF k > Len(sp) \/ best.max_area < 0 THEN best
    ELSE LoopK(sp, i, j, k + 1, Consider(best, <<sp[i], sp[j], sp[k]>>))

RECURSIVE LoopJ(_, _, _, _)
LoopJ(sp, i, j, best) ==
    IF j > Len(sp) - 1 \/ best.max_area < 0 THEN best
    ELSE LoopJ(sp, i, j + 1, LoopK(sp, i, j, j + 1, best))

RECURSIVE LoopI(_, _, _)
LoopI(sp, i, best) ==
    IF i > Len(sp) - 2 \/ best.max_area < 0 THEN best
    ELSE LoopI(sp, i + 1, LoopJ(sp, i, i + 1, best))

\* the index triples the three loops visit over m sampled points, in the
\* order of the visits (each step tests the length of its list, which makes
\* it be evaluated before the next step)
RECURSIVE VisitK(_, _, _, _, _)
VisitK(m, i, j, k, visited) ==
    IF k > m \/ Len(visited) < 0 THEN visited
    ELSE VisitK(m, i, j, k + 1, Append(visited, <<i, j, k>>))

RECURSIVE VisitJ(_, _, _, _)
VisitJ(m, i, j, visited) ==
    IF j > m - 1 \/ Len(visited) < 0 THEN visited
    ELSE VisitJ(m, i, j + 1, VisitK(m, i, j, j + 1, visited))

RECURSIVE VisitI(_, _, _)
VisitI(m, i, visited) ==
    IF i > m - 2 \/ Len(visited) < 0 THEN visited
    ELSE VisitI(m, i + 1, VisitJ(m, i, i + 1, visited))

\* refine_triangle with the loops stopping one sampled point early
refine_triangle_short(points) ==
    IF Len(points) < 3 THEN points
    ELSE LET start == [max_area |-> 0, best_triangle |-> Take(points, 3)]
             sp == SamplePoints(points)
             found == LoopI(Take(sp, Len(sp) - 1), 1, start)
         IN  Append(found.best_triangle, found.best_triangle[1])

refine_triangle(points) ==
    IF Len(points) < 3 THEN points
    ELSE LET start == [max_area |-> 0, best_triangle |-> Take(points, 3)]
             found == LoopI(SamplePoints(points), 1, start)
         IN  Append(found.best_triangle, found.best_triangle[1])

------------------------------------------------------------------------\* the arrow with its head drawn back from (ex, ey), for a shaft of length
\* direction_norm > 0; everything in hundredths of a pixel
Arrow(start, end, direction_norm) ==
    LET direction == <<(Scale * (end[1] - start[1])) \div direction_norm,
                       (Scale * (end[2] - start[2])) \div direction_norm>>
        perpendicular == <<-direction[2], direction[1]>>
        head_length == (direction_norm * 2) \div 10
        head_width == direction_norm \div 10
        head_back == <<end[1] - (direction[1] * head_length) \div Scale,
                       end[2] - (direction[2] * head_length) \div Scale>>
        head_top == <<head_back[1] + (perpendicular[1] * head_width) \div Scale,
                      head_back[2] + (perpendicular[2] * head_width) \div Scale>>
        head_bottom ==
            <<head_back[1] - (perpendicular[1] * head_width) \div Scale,
              head_back[2] - (perpendicular[2] * head_width) \div Scale>>
    IN  <<start, end, head_top, end, head_bottom>>

\* refine_arrow with the guard len(points) < 3
refine_arrow_three(points) ==
    LET n == Len(points)
        start == <<Unit * points[1][1], Unit * points[1][2]>>
        end == <<Unit * points[n][1], Unit * points[n][2]>>
    IN  IF n < 3 THEN points
        ELSE IF Norm(start, end) = 0 THEN points
        ELSE Arrow(start, end, Norm(start, end))

\* the refined arrow, in hundredths of a pixel
refine_arrow(points) ==
    LET n == Len(points)
        start == <<Unit * points[1][1], Unit * points[1][2]>>
        end == <<Unit * points[n][1], Unit * points[n][2]>>
    IN  IF n < 4 THEN points
        ELSE IF Norm(start, end) = 0 THEN points
        ELSE Arrow(start, end, Norm(start, end))

\* the tips of the star
StarTips == 5

\* i * 2 * np.pi / 5 - np.pi / 2, for i counted in halves
StarAngle(halves) == (halves * TwoPi) \div (2 * StarTips) - HalfPi

\* the refined star, in hundredths of a pixel: outer and inner points in
\* turn, closed by the first one
refine_star(points) ==
    IF Len(points) < 5 THEN points
    ELSE LET center == Centroid(points)
             distances == Distances(points, center)
             outer_radius ==
                 SetMax({distances[i] : i \in 1..Len(distances)})
             inner_radius == (outer_radius * 4) \div 10
             star_points ==
                 [k \in 1..(2 * StarTips) |->
                     LET radius == IF k % 2 = 1 THEN outer_radius
                                   ELSE inner_radius
                     IN  <<center[1]
                            + (radius * CosAny(StarAngle(k - 1))) \div Scale,
                           center[2]
                            + (radius * SinAny(StarAngle(k - 1))) \div Scale>>]
         IN  Append(star_points, star_points[1])

-----
(* Calls of the refiners on a stroke *)

\* longest stroke drawn point by point from the grid
MaxShort == 4

\* how far the long strokes exceed the sample cap
MaxExtra == 3

Grid == {<<0, 0>>, <<40, 0>>, <<0, 30>>, <<40, 30>>, <<20, 50>>}

\* long strokes: an arc (convex), a straight line, a zigzag
LongStroke(kind, n) ==
    [i \in 1..n |->
        CASE kind = "arc" -> <<4 * (i - 1), ((i - 1) * (i - 1)) \div 6>>
          [] kind = "line" -> <<3 * (i - 1), 2 * (i - 1)>>
          [] OTHER -> <<4 * (i - 1), 30 * (i % 2)>>]

\* how far the longest straight stroke exceeds the sample cap: from 30 points
\* on the sampled indices skip the third point
MaxSkip == 10

RefineInputs ==
    UNION {[1..k -> Grid] : k \in 0..MaxShort}
    \cup {LongStroke(kind, n) : kind \in {"arc", "line", "zigzag"},
                                n \in (SampleCap - 1)..(SampleCap + MaxExtra)}
    \cup {LongStroke("line", SampleCap + MaxSkip)}

\* no augment_stroke call is in progress
IdleAugmenter ==
    /\ arrays = <<>>
    /\ dicts = <<>>
    /\ stroke = NoStroke
    /\ num_augmentations = 0
    /\ augmented = NoStroke
    /\ augmented_strokes = <<>>
    /\ selected_augs = <<>>
    /\ remaining = 0
    /\ applied = <<>>
    /\ input0 = NoStroke

InitRefine ==
    /\ pc = "refine"
    /\ args \in RefineInputs
    /\ fn = ""
    /\ ret = <<>>
    /\ error = ""
    /\ IdleAugmenter
    /\ IdleBulk

\* the call returns value from function name
Returns(name, value) ==
    /\ fn' = name
    /\ ret' = value
    /\ pc' = "returned"
    /\ UNCHANGED <<bulkVars, augVars, error, args>>

RefineRectangle ==
    /\ pc = "refine"
    /\ Returns("refine_rectangle", refine_rectangle(args))

RefineCircle ==
    /\ pc = "refine"
    /\ Returns("refine_circle", refine_circle(args))

RefineLine ==
    /\ pc = "refine"
    /\ Returns("refine_line", refine_line(args))

RefineTriangle ==
    /\ pc = "refine"
    /\ Returns("refine_triangle", refine_triangle(args))

RefineArrow ==
    /\ pc = "refine"
    /\ Returns("refine_arrow", refine_arrow(args))

RefineStar ==
    /\ pc = "refine"
    /\ Returns("refine_star", refine_star(args))

NextRefine ==
    \/ RefineRectangle
    \/ RefineCircle
    \/ RefineLine
    \/ RefineTriangle
    \/ RefineArrow
    \/ RefineStar

SpecRefine == InitRefine /\ [][NextRefine]_vars

-----------------------------------------------------------------------------
(* Properties of the refiners *)

Returned(name) == pc = "returned" /\ fn = name

\* the five points ret are the closed loop around the bounding box of points
IsBoundingLoop(points, result) ==
    /\ Len(result) = 5
    /\ result[1] = result[5]
    /\ LET lo == result[1]
           hi == result[3]
       IN  /\ result[2] = <<hi[1], lo[2]>>
           /\ result[4] = <<lo[1], hi[2]>>
           /\ \A i \in 1..Len(points) :
                /\ lo[1] <= points[i][1] /\ points[i][1] <= hi[1]
                /\ lo[2] <= points[i][2] /\ points[i][2] <= hi[2]
           /\ \E i \in 1..Len(points) : points[i][1] = lo[1]
           /\ \E i \in 1..Len(points) : points[i][1] = hi[1]
           /\ \E i \in 1..Len(points) : points[i][2] = lo[2]
           /\ \E i \in 1..Len(points) : points[i][2] = hi[2]

\* C4, as claimed: refine_rectangle returns, for any point set, exactly 5
\* points forming the closed loop around the axis-aligned bounding box.
RectangleOfAnyInput ==
    Returned("refine_rectangle") => IsBoundingLoop(args, ret)

\* C4, amended: for any non-empty point set refine_rectangle returns exactly
\* 5 points forming the closed loop (min_x,min_y), (max_x,min_y),
\* (max_x,max_y), (min_x,max_y), (min_x,min_y) around the bounding box; for
\* the empty point set it returns the empty input.
RectangleOfNonEmptyInput ==
    Returned("refine_rectangle") =>
        IF Len(args) = 0 THEN ret = args ELSE IsBoundingLoop(args, ret)

RectangleWitness ==
    /\ Returned("refine_rectangle")
    /\ Len(args) = 3
    /\ ret[1] # ret[2] /\ ret[2] # ret[3]
    /\ \A i \in 1..3 : args[i] # ret[1]

\* C5: refine_line returns exactly <<P[0], P[-1]>> when P has at least two
\* points, and P itself when it has fewer.
LineKeepsEndpoints ==
    Returned("refine_line") =>
        IF Len(args) >= 2
        THEN ret = <<args[1], args[Len(args)]>>
        ELSE ret = args

LineWitness ==
    /\ Returned("refine_line")
    /\ Len(args) >= 3
    /\ args[2] # args[Len(args)]
    /\ Len(ret) = 2

\* the triples i < j < k of the sampled points
SampledTriples(points) ==
    LET sp == SamplePoints(points)
        n == Len(sp)
    IN  {<<sp[u[1]], sp[u[2]], sp[u[3]]>> :
            u \in {v \in (1..n) \X (1..n) \X (1..n) :
                    v[1] < v[2] /\ v[2] < v[3]}}

\* C6: for an input of at least 3 points, the triangle refine_triangle
\* returns has an area at least that of every triple i < j < k of the
\* sampled points.
TriangleHasMaximalArea ==
    (Returned("refine_triangle") /\ Len(args) >= 3) =>
        /\ Len(ret) = 4
        /\ \A t \in SampledTriples(args) :
            triangle_area(Take(ret, 3)) >= triangle_area(t)

TriangleWitness ==
    /\ Returned("refine_triangle")
    /\ Len(args) > SampleCap
    /\ triangle_area(Take(ret, 3)) > 0
    /\ \E t \in SampledTriples(args) :
        /\ triangle_area(t) > 0
        /\ triangle_area(t) < triangle_area(Take(ret, 3))

\* the index triples i < j < k over n sampled points
TripleIndices(n) ==
    {v \in (1..n) \X (1..n) \X (1..n) : v[1] < v[2] /\ v[2] < v[3]}

\* the loops reach u before v
Before(u, v) ==
    \/ u[1] < v[1]
    \/ u[1] = v[1] /\ u[2] < v[2]
    \/ u[1] = v[1] /\ u[2] = v[2] /\ u[3] < v[3]

\* result closes the first triple, in the order of the loops, among the
\* sampled triples of maximum area
ClosesFirstMaximalTriple(points, result) ==
    LET sp == SamplePoints(points)
        t == Take(result, 3)
    IN  /\ Len(result) = 4
        /\ result[4] = result[1]
        /\ \E u \in TripleIndices(Len(sp)) :
            /\ t = <<sp[u[1]], sp[u[2]], sp[u[3]]>>
            /\ \A v \in TripleIndices(Len(sp)) :
                LET area == triangle_area(<<sp[v[1]], sp[v[2]], sp[v[3]]>>)
                IN  /\ area <= triangle_area(t)
                    /\ area = triangle_area(t) => ~Before(v, u)

MaxTriples == (SampleCap * (SampleCap - 1) * (SampleCap - 2)) \div 6

\* C28: for an input of n >= 3 points the indices refine_triangle samples
\* are exactly min(n, 20) indices, strictly increasing, the first 0 and the
\* last n - 1; the search visits each of the C(min(n, 20), 3) <= 1140 triples
\* i < j < k of them exactly once.
SampleIndicesSpanTheStroke ==
    (Returned("refine_triangle") /\ Len(args) >= 3) =>
        LET n == Len(args)
            indices == SampleIndices(n)
            m == Len(indices)
            visited == VisitI(m, 1, <<>>)
        IN  /\ m = Min(n, 20)
            /\ Len(SamplePoints(args)) = m
            /\ indices[1] = 0
            /\ indices[m] = n - 1
            /\ \A i \in 1..(m - 1) : indices[i] < indices[i + 1]
            /\ 6 * Len(visited) = m * (m - 1) * (m - 2)
            /\ Len(visited) <= MaxTriples
            /\ MaxTriples = 1140
            /\ {visited[a] : a \in DOMAIN visited} = TripleIndices(m)
            /\ Cardinality(TripleIndices(m)) = Len(visited)

SampleIndicesWitness ==
    /\ Returned("refine_triangle")
    /\ Len(args) > SampleCap + 1
    /\ Len(SampleIndices(Len(args))) = SampleCap
    /\ \E i \in 1..(SampleCap - 1) :
        SampleIndices(Len(args))[i + 1] = SampleIndices(Len(args))[i] + 2

\* tolerance of the fixed-point circle, in hundredths of a pixel
CircleTolerance == 10

\* the points of result all lie at the mean distance of points from their
\* centroid, within the tolerance
OnMeanCircle(points, result) ==
    /\ Len(result) = CirclePoints
    /\ \A k \in 1..Len(result) :
        Abs(Norm(result[k], Centroid(points)) - MeanRadius(points))
            <= CircleTolerance

\* C7, as claimed: refine_circle returns exactly 64 points for every input,
\* all at the mean distance of the input's points from their centroid.
CircleOfAnyInput ==
    Returned("refine_circle") => OnMeanCircle(args, ret)

\* C7, amended: for every non-empty input refine_circle returns exactly 64
\* points, all at the mean distance of the input's points from their
\* centroid (within the tolerance); for the empty input it returns the
\* empty input.
CircleOfNonEmptyInput ==
    Returned("refine_circle") =>
        IF Len(args) = 0 THEN ret = args ELSE OnMeanCircle(args, ret)

CircleWitness ==
    /\ Returned("refine_circle")
    /\ Len(args) = 3
    /\ MeanRadius(args) > 20 * Unit
    /\ \E i \in 1..3 :
        Norm(<<Unit * args[i][1], Unit * args[i][2]>>, Centroid(args))
            > MeanRadius(args) + 2 * Unit

\* the stroke in args is degenerate for the refiner that returned
Degenerate ==
    \/ fn = "refine_triangle" /\ Len(args) < 3
    \/ fn = "refine_arrow" /\ (Len(args) < 4 \/ args[1] = args[Len(args)])
    \/ fn = "refine_star" /\ Len(args) < 5

\* C15: refine_triangle on fewer than 3 points, refine_arrow on fewer than 4
\* points or on a stroke whose first point equals its last, and refine_star
\* on fewer than 5 points all return: they do not raise, and what they
\* return is their input, unchanged.
DegenerateStrokePassesThrough ==
    /\ (pc = "refine" /\ Len(args) < 3) => ENABLED RefineTriangle
    /\ (pc = "refine" /\ (Len(args) < 4 \/ args[1] = args[Len(args)]))
            => ENABLED RefineArrow
    /\ (pc = "refine" /\ Len(args) < 5) => ENABLED RefineStar
    /\ (pc = "returned" /\ Degenerate) => ret = args

\* an arrow of four points whose shaft has length zero, and is not a single
\* point, came back as it was
DegenerateStrokeWitness ==
    /\ Returned("refine_arrow")
    /\ Len(args) = 4
    /\ args[1] = args[4]
    /\ args[2] # args[1]
    /\ ret = args

-----------------------------------------------------------------------------
(* The /detect endpoint (api/detection_service.py) and the classifier's    *)
(* predict_shape (models/shape_detector.py).  The network is an input: a   *)
(* loaded model is the softmax probabilities it gives the stroke, in       *)
(* 1/10000; the global `model` is None or such a model.                    *)

shape_labels ==
    <<"line", "rectangle", "circle", "triangle", "arrow", "star", "freehand">>

\* 0.7, the default confidence_threshold of predict_shape and the literal
\* of detect_shape
ConfidenceThreshold == (7 * Scale) \div 10

\* torch.max(probabilities, 1): the largest probability and the first index
\* that has it
TorchMax(probabilities) ==
    LET max_prob == SetMax({probabilities[i] : i \in DOMAIN probabilities})
    IN  [max_prob |-> max_prob,
         predicted_class |->
             CHOOSE i \in DOMAIN probabilities :
                /\ probabilities[i] = max_prob
                /\ \A j \in 1..(i - 1) : probabilities[j] # max_prob]

\* predict_shape with confidence_threshold = 0.5
predict_shape_half(probabilities) ==
    LET best == TorchMax(probabilities)
    IN  IF best.max_prob > (5 * Scale) \div 10
        THEN [shape |-> shape_labels[best.predicted_class],
              confidence |-> best.max_prob,
              all_probabilities |->
                  [l \in {shape_labels[i] : i \in DOMAIN shape_labels} |->
                      probabilities[CHOOSE i \in DOMAIN shape_labels :
                                        shape_labels[i] = l]]]
        ELSE [shape |-> "freehand",
              confidence |-> best.max_prob,
              all_probabilities |-> <<>>]

\* the dict predict_shape returns, from the softmax output of the network
predict_shape(probabilities) ==
    LET best == TorchMax(probabilities)
    IN  IF best.max_prob > ConfidenceThreshold
        THEN [shape |-> shape_labels[best.predicted_class],
              confidence |-> best.max_prob,
              all_probabilities |->
                  [l \in {shape_labels[i] : i \in DOMAIN shape_labels} |->
                      probabilities[CHOOSE i \in DOMAIN shape_labels :
                                        shape_labels[i] = l]]]
        ELSE [shape |-> "freehand",
              confidence |-> best.max_prob,
              all_probabilities |-> <<>>]

\* the if/elif chain of detect_shape, with a final else: refine_line
RefinedElseLine(shape_type, points) ==
    CASE shape_type = "rectangle" -> refine_rectangle(points)
      [] shape_type = "circle" -> refine_circle(points)
      [] shape_type = "triangle" -> refine_triangle(points)
      [] shape_type = "arrow" -> refine_arrow(points)
      [] shape_type = "star" -> refine_star(points)
      [] OTHER -> refine_line(points)

\* the if/elif chain of detect_shape: the refiner of shape_type, if any
Refined(shape_type, points) ==
    CASE shape_type = "rectangle" -> refine_rectangle(points)
      [] shape_type = "circle" -> refine_circle(points)
      [] shape_type = "line" -> refine_line(points)
      [] shape_type = "triangle" -> refine_triangle(points)
      [] shape_type = "arrow" -> refine_arrow(points)
      [] shape_type = "star" -> refine_star(points)
      [] OTHER -> points

\* the ShapeDetectionResponse of detect_shape, for a loaded model
detect_shape(points, probabilities) ==
    IF Len(points) < 2
    THEN [shape |-> "freehand",
          confidence |-> 0,
          all_probabilities |-> <<>>,
          refined_points |-> points]
    ELSE LET detection_result == predict_shape(probabilities)
             refined_points ==
                 IF detection_result.confidence > ConfidenceThreshold
                 THEN Refined(detection_result.shape, points)
                 ELSE points
         IN  [shape |-> detection_result.shape,
              confidence |-> detection_result.confidence,
              all_probabilities |-> detection_result.all_probabilities,
              refined_points |-> refined_points]

-----------------------------------------------------------------------------
(* Calls of /detect: args is <<stroke.points, model>> *)

\* the softmax outputs tried: the winning class has probability p and the
\* other six share the rest
WinningProbabilities ==
    {(4 * Scale) \div 10, (64 * Scale) \div 100, ConfidenceThreshold,
     ConfidenceThreshold + 6, Scale - 60}

Softmax(winner, p) ==
    [i \in DOMAIN shape_labels |->
        IF i = winner THEN p ELSE (Scale - p) \div (Len(shape_labels) - 1)]

Models ==
    {None}
    \cup {<<Softmax(winner, p)>> :
            winner \in DOMAIN shape_labels, p \in WinningProbabilities}

\* longest short stroke sent to /detect
MaxDetect == 3

DetectInputs ==
    {points \in RefineInputs : Len(points) <= MaxDetect \/ Len(points) > MaxShort}

InitDetect ==
    /\ pc = "detect_shape"
    /\ args \in DetectInputs \X Models
    /\ fn = ""
    /\ ret = <<>>
    /\ error = ""
    /\ IdleAugmenter
    /\ IdleBulk

\* if model is None: raise HTTPException(status_code=500, ...)
DetectWithoutModel ==
    /\ pc = "detect_shape"
    /\ args[2] = None
    /\ pc' = "raised"
    /\ error' = "HTTPException"
    /\ fn' = "detect_shape"
    /\ UNCHANGED <<bulkVars, augVars, args, ret>>

DetectShape ==
    /\ pc = "detect_shape"
    /\ args[2] # None
    /\ Returns("detect_shape", detect_shape(args[1], args[2][1]))

NextDetect ==
    \/ DetectWithoutModel
    \/ DetectShape

SpecDetect == InitDetect /\ [][NextDetect]_vars

-----------------------------------------------------------------------------
(* Properties of /detect *)

\* a call of detect_shape with the model loaded, on at least 2 points
Detecting ==
    /\ pc = "detect_shape" \/ fn = "detect_shape"
    /\ args[2] # None
    /\ Len(args[1]) >= 2

\* the confidence of the classifier for the stroke of the call
Confidence == TorchMax(args[2][1]).max_prob

\* the class the classifier finds most probable
NominalShape == shape_labels[TorchMax(args[2][1]).predicted_class]

\* C12: in a call of detect_shape with the model loaded on a stroke of at
\* least 2 points, the refined points differ from the stroke only if the
\* confidence is strictly greater than 0.7; and when the confidence is at
\* most 0.7 the response carries the stroke's points unchanged and the shape
\* "freehand", whichever class was most probable.
RefinesOnlyAboveThreshold ==
    (Detecting /\ pc = "returned") =>
        /\ ret.refined_points # args[1] => Confidence > ConfidenceThreshold
        /\ ret.confidence = Confidence
        /\ Confidence <= ConfidenceThreshold =>
                /\ ret.refined_points = args[1]
                /\ ret.shape = "freehand"

\* the classifier found "circle" most probable, but with a confidence of
\* exactly 0.7: the response says freehand and carries the raw points
RefinesOnlyAboveThresholdWitness ==
    /\ Detecting
    /\ pc = "returned"
    /\ NominalShape = "circle"
    /\ Confidence = ConfidenceThreshold
    /\ ret.shape = "freehand"
    /\ ret.refined_points = args[1]
    /\ refine_circle(args[1]) # args[1]

\* the labels that have a refiner
RefinedShapes ==
    {"rectangle", "circle", "line", "triangle", "arrow", "star"}

\* C13: a call of detect_shape (model loaded, at least 2 points) whose
\* predicted label has no refiner does not raise, and its refined points
\* are the stroke's points, also when the confidence is above 0.7.
NoRefinerIsIdentity ==
    /\ (/\ Detecting
        /\ pc = "detect_shape"
        /\ predict_shape(args[2][1]).shape \notin RefinedShapes)
            => ENABLED DetectShape
    /\ Detecting => pc # "raised"
    /\ (Detecting /\ pc = "returned" /\ ret.shape \notin RefinedShapes) =>
            ret.refined_points = args[1]

\* "freehand" was predicted with a confidence above 0.7 for a stroke that
\* the line refiner would have changed
NoRefinerIsIdentityWitness ==
    /\ Detecting
    /\ pc = "returned"
    /\ NominalShape = "freehand"
    /\ Confidence > ConfidenceThreshold
    /\ ret.shape = "freehand"
    /\ refine_line(args[1]) # args[1]
    /\ ret.refined_points = args[1]

-----------------------------------------------------------------------------
(* IEEE-754 binary64 division, as Python's / computes it on positive       *)
(* numbers: the quotient rounded to the nearest 53-bit significand, ties   *)
(* to even.  A natural number below 2^60 is four limbs in base 2^15, most  *)
(* significant first; a float is [m, e] with 2^52 <= m < 2^53 and value    *)
(* m * 2^(e - 52).                                                         *)

Limb == 32768

Limbs == 4

\* the limbs of a natural number below 2^45
BigOf(n) == <<0, n \div (Limb * Limb), (n \div Limb) % Limb, n % Limb>>

BigLess(a, b) ==
    \E i \in 1..Limbs : a[i] < b[i] /\ \A j \in 1..(i - 1) : a[j] = b[j]

\* the limbs after i of a are below those of b: limb i lends one
Borrows(a, b, i) ==
    \E k \in (i + 1)..Limbs :
        a[k] < b[k] /\ \A j \in (i + 1)..(k - 1) : a[j] = b[j]

\* a - b, for a >= b
BigSub(a, b) ==
    LET limb(i) ==
            (a[i] - b[i] - (IF Borrows(a, b, i) THEN 1 ELSE 0) + Limb) % Limb
    IN  <<limb(1), limb(2), limb(3), limb(4)>>

\* 2 * a
BigDouble(a) ==
    LET limb(i) ==
            (2 * a[i]
             + (IF i < Limbs /\ 2 * a[i + 1] >= Limb THEN 1 ELSE 0)) % Limb
    IN  <<limb(1), limb(2), limb(3), limb(4)>>

\* a + 1
BigInc(a) ==
    LET limb(i) ==
            IF \A k \in (i + 1)..Limbs : a[k] = Limb - 1
            THEN (a[i] + 1) % Limb
            ELSE a[i]
    IN  <<limb(1), limb(2), limb(3), limb(4)>>

BigOdd(a) == a[Limbs] % 2 = 1

\* 2^52 and 2^53
TwoTo52 == <<128, 0, 0, 0>>

TwoTo53 == <<256, 0, 0, 0>>

\* scale n / d by powers of two into [1, 2): d <= n < 2 d
RECURSIVE Normalise(_, _, _)
Normalise(n, d, e) ==
    IF BigLess(n, d) THEN Normalise(BigDouble(n), d, e - 1)
    ELSE IF ~BigLess(n, BigDouble(d)) THEN Normalise(n, BigDouble(d), e + 1)
    ELSE [n |-> n, d |-> d, e |-> e]

\* one step of long division: the next bit of the quotient q; r is the
\* remainder, doubled
DivStep(x, d) ==
    IF BigLess(x.r, d)
    THEN [q |-> BigDouble(x.q), r |-> BigDouble(x.r)]
    ELSE [q |-> BigInc(BigDouble(x.q)), r |-> BigDouble(BigSub(x.r, d))]

\* `bits` steps of long division (the test on x.q is never true: it makes
\* TLC evaluate each step before the next one)
RECURSIVE DivBits(_, _, _)
DivBits(x, d, bits) ==
    IF bits = 0 \/ x.q[1] < 0 THEN x
    ELSE DivBits(DivStep(x, d), d, bits - 1)

\* the float nearest to (n / d) * 2^e, for naturals n, d > 0
RoundDiv(n, d, e) ==
    LET s == Normalise(n, d, e)
        x == DivBits([q |-> BigOf(0), r |-> s.n], s.d, 53)
        up == \/ BigLess(s.d, x.r)
              \/ (x.r = s.d /\ BigOdd(x.q))
        m == IF up THEN BigInc(x.q) ELSE x.q
    IN  IF m = TwoTo53 THEN [m |-> TwoTo52, e |-> s.e + 1]
        ELSE [m |-> m, e |-> s.e]

\* v / total for ints, and x / y for floats
IntDiv(v, total) == RoundDiv(BigOf(v), BigOf(total), 0)

FloatDiv(x, y) == RoundDiv(x.m, y.m, x.e - y.e)

FloatLess(x, y) == x.e < y.e \/ (x.e = y.e /\ BigLess(x.m, y.m))

FloatLeq(x, y) == ~FloatLess(y, x)

\* the literal 0.1
OneTenth == IntDiv(1, 10)

-----------------------------------------------------------------------------
(* DatasetValidator (training/dataset_manager.py).  Points are whole       *)
(* pixels; lengths and deviations are in hundredths of a pixel; the        *)
(* coverage and the duplicate ratio are binary64 quotients.                *)

\* sqrt(v) in hundredths, for a whole number v
Root(v) == (Unit * ISqrt(100 * v)) \div 10

\* the squared length of the step from points[i] to points[i + 1]
StepSquare(points, i) ==
    (points[i + 1][1] - points[i][1]) * (points[i + 1][1] - points[i][1])
    + (points[i + 1][2] - points[i][2]) * (points[i + 1][2] - points[i][2])

\* np.sum(np.linalg.norm(np.diff(points, axis=0), axis=1))
StrokeLength(points) ==
    SumSeq([i \in 1..(Len(points) - 1) |-> Root(StepSquare(points, i))])

\* np.std along one axis: sqrt(n * sum(x^2) - sum(x)^2) / n
Std(xs) ==
    LET n == Len(xs)
        total == SumSeq(xs)
        squares == SumSeq([i \in 1..n |-> xs[i] * xs[i]])
    IN  Root(n * squares - total * total) \div n

\* np.std(points, axis=0).mean()
Variation(points) ==
    (Std([i \in 1..Len(points) |-> points[i][1]])
     + Std([i \in 1..Len(points) |-> points[i][2]])) \div 2

calculate_bbox_area(points) ==
    IF Len(points) = 0 THEN 0
    ELSE (SetMax(Xs(points)) - SetMin(Xs(points)))
         * (SetMax(Ys(points)) - SetMin(Ys(points)))

\* the number of steps shorter than 1e-6: whole pixels, so of length 0
Duplicates(points) ==
    Cardinality({i \in 1..(Len(points) - 1) : StepSquare(points, i) = 0})

\* duplicates / len(points), for at least one duplicate
calculate_duplicate_ratio(points) == IntDiv(Duplicates(points), Len(points))

validation_rules ==
    [min_points_per_stroke |-> 5,
     max_points_per_stroke |-> 200,
     min_canvas_coverage |-> IntDiv(1, 100),    \* the literal 0.01
     max_canvas_coverage |-> IntDiv(8, 10),     \* the literal 0.8
     min_stroke_length |-> 10 * Unit,
     max_duplicate_points |-> OneTenth,
     min_variation |-> 2 * Unit]

\* a canvas of 1024 by 512
canvas_area_wide == 1024 * 512

canvas_area == 512 * 512

\* the checks forced to False, without valid_duplicates
FurtherChecksShort == {"valid_length", "valid_variation", "valid_coverage"}

FurtherChecks ==
    {"valid_length", "valid_variation", "valid_coverage", "valid_duplicates"}

\* the dict validate_stroke returns: check name |-> bool
validate_stroke(points) ==
    LET n == Len(points)
        results == ("valid_point_count" :>
                        (/\ validation_rules.min_points_per_stroke <= n
                         /\ n <= validation_rules.max_points_per_stroke))
    IN  IF n < 2
        THEN [k \in FurtherChecks |-> FALSE] @@ results
        ELSE LET bbox_area == calculate_bbox_area(points)
                 \* the quotients, where they are not 0.0
                 coverage == IntDiv(bbox_area, canvas_area)
                 duplicate_ratio == calculate_duplicate_ratio(points)
                 checks ==
                     results
                     @@ ("valid_length" :>
                            (StrokeLength(points)
                                >= validation_rules.min_stroke_length))
                     @@ ("valid_variation" :>
                            (Variation(points) >= validation_rules.min_variation))
                     @@ ("valid_coverage" :>
                            (/\ bbox_area > 0
                             /\ FloatLeq(validation_rules.min_canvas_coverage,
                                         coverage)
                             /\ FloatLeq(coverage,
                                         validation_rules.max_canvas_coverage)))
                     @@ ("valid_duplicates" :>
                            (\/ Duplicates(points) = 0
                             \/ FloatLeq(duplicate_ratio,
                                         validation_rules.max_duplicate_points)))
             IN  ("is_valid" :> (\A k \in DOMAIN checks : checks[k])) @@ checks

\* Counter(stroke.shape_label for stroke in strokes)
Counter(labels) ==
    [l \in {labels[i] : i \in 1..Len(labels)} |->
        Cardinality({i \in 1..Len(labels) : labels[i] = l})]

FloatMin(S) == CHOOSE x \in S : \A y \in S : ~FloatLess(y, x)

FloatMax(S) == CHOOSE x \in S : \A y \in S : ~FloatLess(x, y)

\* validate_dataset_balance without its guard on total_samples == 0: min()
\* of no proportions raises ValueError
validate_dataset_balance_unguarded(labels) ==
    LET class_counts == Counter(labels)
        total_samples == Len(labels)
        class_proportions ==
            [l \in DOMAIN class_counts |-> IntDiv(class_counts[l], total_samples)]
        proportions == {class_proportions[l] : l \in DOMAIN class_counts}
        min_proportion == FloatMin(proportions)
        max_proportion == FloatMax(proportions)
        \* max_proportion > 0 whenever there is a sample
        balance_ratio == FloatDiv(min_proportion, max_proportion)
    IN  IF total_samples = 0
        THEN [raised |-> "ValueError"]
        ELSE [balanced |-> ~FloatLess(balance_ratio, OneTenth),
              balance_ratio |-> balance_ratio,
              class_counts |-> class_counts,
              class_proportions |-> class_proportions,
              total_samples |-> total_samples,
              num_classes |-> Cardinality(DOMAIN class_counts)]

\* the dict validate_dataset_balance returns, for the labels of the strokes
validate_dataset_balance(labels) ==
    LET class_counts == Counter(labels)
        total_samples == Len(labels)
        class_proportions ==
            [l \in DOMAIN class_counts |-> IntDiv(class_counts[l], total_samples)]
        proportions == {class_proportions[l] : l \in DOMAIN class_counts}
        min_proportion == FloatMin(proportions)
        max_proportion == FloatMax(proportions)
        \* max_proportion > 0 whenever there is a sample
        balance_ratio == FloatDiv(min_proportion, max_proportion)
    IN  IF total_samples = 0
        THEN [balanced |-> FALSE, message |-> "Empty dataset"]
        ELSE [balanced |-> ~FloatLess(balance_ratio, OneTenth),
              balance_ratio |-> balance_ratio,
              class_counts |-> class_counts,
              class_proportions |-> class_proportions,
              total_samples |-> total_samples,
              num_classes |-> Cardinality(DOMAIN class_counts)]

-----------------------------------------------------------------------------
(* Calls of the validator *)

\* longest stroke validated, and most strokes of one class in a dataset
MaxStroke == 6

MaxPerClass == 11

ValidatePoints == {<<0, 0>>, <<60, 0>>, <<60, 60>>, <<512, 512>>}

\* opposite corners of bounding boxes next to 1% and to 80% of the canvas:
\* 2620, 2622, 209715 and 209716 square pixels
BoundaryCorners == {<<20, 131>>, <<46, 57>>, <<465, 451>>, <<481, 436>>}

BoundaryStrokes ==
    {<<<<0, 0>>, q, <<q[1], 0>>>> : q \in BoundaryCorners}

\* most duplicates in a long stroke
MaxDuplicates == 3

\* n points along a line, the first d + 1 of them at the same place
DupStroke(n, d) == [i \in 1..n |-> <<30 * Max(0, i - 1 - d), 0>>]

DuplicateStrokes ==
    {DupStroke(n, d) : n \in {9, 10, 11, 20, 21}, d \in 0..MaxDuplicates}

StrokeInputs ==
    UNION {[1..n -> ValidatePoints] : n \in 0..MaxStroke}
    \cup BoundaryStrokes
    \cup DuplicateStrokes

Repeat(l, n) == [i \in 1..n |-> l]

\* the labels of a dataset with a circles, b squares and c lines
DatasetInputs ==
    {Repeat("circle", a) \o Repeat("square", b) \o Repeat("line", c) :
        a \in 0..MaxPerClass, b \in 0..MaxPerClass, c \in 0..MaxPerClass}

InitValidate ==
    /\ \/ pc = "validate_stroke" /\ args \in StrokeInputs
       \/ pc = "validate_dataset_balance" /\ args \in DatasetInputs
    /\ fn = ""
    /\ ret = <<>>
    /\ error = ""
    /\ IdleAugmenter
    /\ IdleBulk

ValidateStroke ==
    /\ pc = "validate_stroke"
    /\ Returns("validate_stroke", validate_stroke(args))

ValidateDatasetBalance ==
    /\ pc = "validate_dataset_balance"
    /\ Returns("validate_dataset_balance", validate_dataset_balance(args))

NextValidate ==
    \/ ValidateStroke
    \/ ValidateDatasetBalance

SpecValidate == InitValidate /\ [][NextValidate]_vars

-----------------------------------------------------------------------------
(* Properties of the validator *)

\* C3, as claimed: whatever the number of points, the result of
\* validate_stroke has the key is_valid, and is_valid is the conjunction of
\* the five checks.  Violated: for fewer than 2 points the early return
\* leaves is_valid out of the result.
StrokeResultHasIsValid ==
    Returned("validate_stroke") =>
        /\ "is_valid" \in DOMAIN ret
        /\ ret["is_valid"] =
               \A k \in {"valid_point_count"} \cup FurtherChecks : ret[k]

\* the class counts of the dataset in args
ClassCounts == {Counter(args)[l] : l \in DOMAIN Counter(args)}

\* C8, as claimed: on a non-empty dataset balanced is true exactly when the
\* smallest class count is at least 10% of the largest.  Violated: the ratio
\* of the two rounded proportions can fall below the double 0.1, as for 10
\* circles, 1 square and 1 line.
BalancedIffTenPercent ==
    (Returned("validate_dataset_balance") /\ Len(args) > 0) =>
        (ret.balanced <=> 10 * SetMin(ClassCounts) >= SetMax(ClassCounts))

\* C17: validate_dataset_balance on an empty list of strokes returns, and
\* what it returns is balanced = False with the message "Empty dataset" and
\* nothing else: no ratio, no proportions.
EmptyDatasetIsUnbalanced ==
    /\ (pc = "validate_dataset_balance" /\ args = <<>>)
            => ENABLED ValidateDatasetBalance
    /\ (Returned("validate_dataset_balance") /\ args = <<>>) =>
            /\ DOMAIN ret = {"balanced", "message"}
            /\ ret.balanced = FALSE
            /\ ret.message = "Empty dataset"

EmptyDatasetWitness ==
    /\ Returned("validate_dataset_balance")
    /\ args = <<>>
    /\ ret.balanced = FALSE

\* C18: for a stroke of fewer than 2 points validate_stroke returns, and
\* reports valid_point_count, valid_length, valid_variation, valid_coverage
\* and valid_duplicates all false.
ShortStrokeFailsEveryCheck ==
    /\ (pc = "validate_stroke" /\ Len(args) < 2) => ENABLED ValidateStroke
    /\ (Returned("validate_stroke") /\ Len(args) < 2) =>
            \A k \in {"valid_point_count", "valid_length", "valid_variation",
                      "valid_coverage", "valid_duplicates"} :
                k \in DOMAIN ret /\ ret[k] = FALSE

\* a stroke of one point was validated
ShortStrokeWitness ==
    /\ Returned("validate_stroke")
    /\ Len(args) = 1
    /\ ret["valid_duplicates"] = FALSE
    /\ ret["valid_point_count"] = FALSE

\* the area of the axis-aligned bounding box of the stroke in args
BoundingBoxArea ==
    LET inside(x, y) == \A i \in 1..Len(args) :
                            /\ x[1] <= args[i][1] /\ args[i][1] <= y[1]
                            /\ x[2] <= args[i][2] /\ args[i][2] <= y[2]
        coords == UNION {{args[i][1], args[i][2]} : i \in 1..Len(args)}
        boxes == {b \in (coords \X coords) \X (coords \X coords) :
                    inside(b[1], b[2])}
    IN  SetMin({(b[2][1] - b[1][1]) * (b[2][2] - b[1][2]) : b \in boxes})

DuplicatesOverPairs ==
    (Returned("validate_stroke") /\ Len(args) >= 2) =>
        (ret["valid_duplicates"] <=>
            10 * Cardinality({i \in 1..(Len(args) - 1) : args[i] = args[i + 1]})
                <= Len(args) - 1)

-----------------------------------------------------------------------------
(* HighQualityShapeGenerator (training/data_generation_system.py).         *)
(* Coordinates and lengths are in hundredths of a pixel, angles in         *)
(* 1/10000 radian, factors drawn from [0, 1] ranges in hundredths.         *)

canvas_size == <<512, 512>>

\* noise_level = 0.02, in hundredths of a pixel
noise_level == (2 * Unit) \div 100

shape_categories ==
    [line |-> "_generate_line_variations",
     rectangle |-> "_generate_rectangle_variations",
     circle |-> "_generate_circle_variations",
     triangle |-> "_generate_triangle_variations",
     arrow |-> "_generate_arrow_variations",
     star |-> "_generate_star_variations",
     diamond |-> "_generate_diamond_variations",
     oval |-> "_generate_oval_variations",
     pentagon |-> "_generate_pentagon_variations",
     hexagon |-> "_generate_hexagon_variations"]

\* the generators whose body is `pass`
Placeholders ==
    {"_generate_arrow_variations", "_generate_star_variations",
     "_generate_diamond_variations", "_generate_oval_variations",
     "_generate_pentagon_variations", "_generate_hexagon_variations"}

\* variation_params or {}: None is <<>>, the dict d is <<d>>
OrEmptyDict(variation_params) ==
    IF variation_params = None THEN <<>> ELSE variation_params[1]

\* d.get(key, default)
Get(d, key, default) == IF key \in DOMAIN d THEN d[key] ELSE default

\* start + (num / den) * (end - start)
Lerp(start, end, num, den) ==
    <<start[1] + ((end[1] - start[1]) * num) \div den,
      start[2] + ((end[2] - start[2]) * num) \div den>>

\* start + np.linspace(0, stop, n)[:, np.newaxis] * (end - start), for
\* stop = stop_num / stop_den
EdgeStroke(start, end, stop_num, stop_den, n) ==
    [k \in 1..n |->
        IF n = 1 THEN start
        ELSE Lerp(start, end, stop_num * (k - 1), stop_den * (n - 1))]

\* np.array([random.uniform(lo, hi), random.uniform(lo, hi)])
\*     * self.canvas_size[0], for the two draws in hundredths
OnCanvas(fractions) ==
    <<(fractions[1] * canvas_size[1] * Unit) \div 100,
      (fractions[2] * canvas_size[1] * Unit) \div 100>>

\* the concatenation of the sequences of a sequence
RECURSIVE Flatten(_)
Flatten(ss) == IF ss = <<>> THEN <<>> ELSE Head(ss) \o Flatten(Tail(ss))

\* center + radius * (cos(angle), sin(angle))
Polar(center, radius, angle) ==
    <<center[1] + (radius * CosAny(angle)) \div Scale,
      center[2] + (radius * SinAny(angle)) \div Scale>>

\* the draws of _generate_line_variations that every line type makes
LineBase ==
    [choice : {"straight", "slightly_curved", "dashed"},
     start : {<<10, 10>>, <<90, 90>>},
     length : {100 * Unit, 400 * Unit},
     angle : {0, 23562},
     drawing_speed : {50, 200}]

\* random.randint(5, 15) for each of n dashes (and the like for edges)
PerPart(n, lo, hi) ==
    {[i \in 1..n |-> lo], [i \in 1..n |-> hi],
     [i \in 1..n |-> IF i % 2 = 1 THEN lo ELSE hi]}

\* the draws of _generate_line_variations: those of LineBase and those of
\* the branch taken
LineDraws(params) ==
    LET Branch(b) ==
            LET t == Get(params, "line_type", b.choice)
            IN  IF t = "straight"
                THEN {[num_points |-> n, curve_strength |-> 0,
                       dash_points |-> <<>>] : n \in {15, 50}}
                ELSE IF t = "slightly_curved"
                THEN {[num_points |-> n, curve_strength |-> c,
                       dash_points |-> <<>>] : n \in {20, 60}, c \in {10, 30}}
                ELSE {[num_points |-> 0, curve_strength |-> 0,
                       dash_points |-> d] :
                        d \in PerPart(3, 5, 15) \cup PerPart(8, 5, 15)}
    IN  UNION {{b @@ x : x \in Branch(b)} :
                b \in {c \in LineBase :
                        "line_type" \in DOMAIN params => c.choice = "straight"}}

\* dash i (from 0) of a dashed line: dash_points[i + 1] points from
\* i / num_dashes to min((i + 0.6) / num_dashes, 1.0) of the way
Dash(start, end, dash_points, i) ==
    LET num_dashes == Len(dash_points)
        m == dash_points[i + 1]
        dash_start == 10 * i
        dash_end == Min(10 * i + 6, 10 * num_dashes)
    IN  [k \in 1..m |->
            IF m = 1 THEN Lerp(start, end, dash_start, 10 * num_dashes)
            ELSE Lerp(start, end,
                      dash_start * (m - 1) + (dash_end - dash_start) * (k - 1),
                      10 * num_dashes * (m - 1))]

\* the else branch with the loop `for i in range(3, num_dashes)`
DashesFromThird(start, end, dash_points) ==
    Flatten([j \in 1..(Len(dash_points) - 3) |->
                Dash(start, end, dash_points, j + 2)])

\* the else branch of _generate_line_variations: the dashes of a dashed line
Dashes(start, end, dash_points) ==
    Flatten([j \in 1..Len(dash_points) |-> Dash(start, end, dash_points, j - 1)])

\* _generate_line_variations: the points and the metadata
generate_line_variations(params, rnd) ==
    LET line_types == Get(params, "line_type", rnd.choice)
        start == OnCanvas(rnd.start)
        end == Polar(start, rnd.length, rnd.angle)
        span == Norm(end, start)
        \* perpendicular / (np.linalg.norm(perpendicular) + 1e-8)
        perpendicular ==
            IF span = 0 THEN <<0, 0>>
            ELSE <<(-(end[2] - start[2]) * Scale) \div span,
                   ((end[1] - start[1]) * Scale) \div span>>
        \* curve_strength * length * np.sin(np.pi * t), at t = k / (n - 1)
        curve(k, n) ==
            (((rnd.curve_strength * rnd.length) \div 100)
                * SinAny(Linspace0(Pi, n, k))) \div Scale
        Curved(k, n) ==
            PAdd(Lerp(start, end, k, n - 1),
                 <<(curve(k, n) * perpendicular[1]) \div Scale,
                   (curve(k, n) * perpendicular[2]) \div Scale>>)
    IN  [points |->
            IF line_types = "straight"
            THEN EdgeStroke(start, end, 1, 1, rnd.num_points)
            ELSE IF line_types = "slightly_curved"
            THEN [k \in 1..rnd.num_points |-> Curved(k - 1, rnd.num_points)]
            ELSE Dashes(start, end, rnd.dash_points),
         metadata |-> [line_type |-> line_types, length |-> rnd.length,
                       angle |-> rnd.angle,
                       drawing_speed |-> rnd.drawing_speed]]

\* the draws of _generate_circle_variations
CircleDraws(params) ==
    LET Base == [choice : {"perfect", "wobbly", "spiral"},
                 center : {<<20, 80>>},
                 radius : {50 * Unit, 200 * Unit},
                 num_points : {30, 100},
                 completion : {80, 100}]
        Branch(b) ==
            LET t == Get(params, "circle_type", b.choice)
            IN  IF t = "perfect"
                THEN {[frequency |-> 0, phase |-> 0, turns |-> 0,
                       spiral_factor |-> 0]}
                ELSE IF t = "wobbly"
                THEN {[frequency |-> f, phase |-> HalfPi, turns |-> 0,
                       spiral_factor |-> 0] : f \in {3, 8}}
                ELSE {[frequency |-> 0, phase |-> 0, turns |-> u,
                       spiral_factor |-> 100] : u \in {150, 300}}
    IN  UNION {{b @@ x : x \in Branch(b)} :
                b \in {c \in Base :
                        "circle_type" \in DOMAIN params => c.choice = "perfect"}}

\* _generate_circle_variations: the points and the metadata
generate_circle_variations(params, rnd) ==
    LET circle_type == Get(params, "circle_type", rnd.choice)
        center == OnCanvas(rnd.center)
        radius == rnd.radius
        n == rnd.num_points
        \* np.linspace(0, 2 * np.pi, num_points)[k]
        angle(k) == Linspace0(TwoPi, n, k)
        wobble(k) ==
            ((radius \div 10) * SinAny(angle(k) * rnd.frequency + rnd.phase))
                \div Scale
        \* np.linspace(0, 2 * np.pi * turns, num_points)[k]
        spiral_angle(k) == Linspace0((TwoPi * rnd.turns) \div 100, n, k)
        \* radius * (1 - spiral_factor * (angles / angles[-1]) * 0.3)
        spiral_radius(k) ==
            radius - (radius * rnd.spiral_factor * 3 * k) \div (1000 * (n - 1))
    IN  [points |->
            IF circle_type = "perfect"
            THEN [k \in 1..n |-> Polar(center, radius, angle(k - 1))]
            ELSE IF circle_type = "wobbly"
            THEN [k \in 1..n |->
                    Polar(center, radius + wobble(k - 1), angle(k - 1))]
            ELSE [k \in 1..n |->
                    Polar(center, spiral_radius(k - 1), spiral_angle(k - 1))],
         metadata |-> [circle_type |-> circle_type, radius |-> radius,
                       center |-> center, completion |-> rnd.completion]]

\* the draws of _generate_rectangle_variations
RectangleDraws(params) ==
    LET Base == [choice : {"sharp_corners", "rounded_corners", "tilted"},
                 center : {<<30, 70>>},
                 width : {80 * Unit, 250 * Unit},
                 height : {60 * Unit, 200 * Unit},
                 edge_points : PerPart(4, 8, 20)]
        Branch(b) ==
            IF Get(params, "rect_type", b.choice) = "tilted"
            THEN {[angle |-> a] : a \in {-5236, 5236}}
            ELSE {[angle |-> 0]}
    IN  UNION {{b @@ x : x \in Branch(b)} :
                b \in {c \in Base :
                        "rect_type" \in DOMAIN params =>
                            c.choice = "sharp_corners"}}

\* _generate_rectangle_variations: the points and the metadata
generate_rectangle_variations(params, rnd) ==
    LET rect_type == Get(params, "rect_type", rnd.choice)
        center == OnCanvas(rnd.center)
        w == rnd.width \div 2
        h == rnd.height \div 2
        base == <<<<-w, -h>>, <<w, -h>>, <<w, h>>, <<-w, h>>, <<-w, -h>>>>
        \* corners @ rotation_matrix.T
        Rotated(c) ==
            <<(c[1] * CosAny(rnd.angle) - c[2] * SinAny(rnd.angle)) \div Scale,
              (c[1] * SinAny(rnd.angle) + c[2] * CosAny(rnd.angle)) \div Scale>>
        corners ==
            [i \in 1..5 |->
                PAdd(IF rect_type = "tilted" THEN Rotated(base[i]) ELSE base[i],
                     center)]
        \* edge i, from 0: up to 0.8 of the way for rounded corners
        Edge(i) ==
            IF rect_type = "rounded_corners" /\ i < 4
            THEN EdgeStroke(corners[i + 1], corners[i + 2], 8, 10,
                            rnd.edge_points[i + 1])
            ELSE EdgeStroke(corners[i + 1], corners[i + 2], 1, 1,
                            rnd.edge_points[i + 1])
    IN  [points |-> Flatten([j \in 1..(Len(corners) - 1) |-> Edge(j - 1)]),
         metadata |-> [rect_type |-> rect_type, width |-> rnd.width,
                       height |-> rnd.height,
                       aspect_ratio |-> (100 * rnd.width) \div rnd.height]]

\* the draws of _generate_triangle_variations; the offsets of a scalene
\* triangle are in hundredths of its size
TriangleDraws(params) ==
    LET Base == [choice : {"equilateral", "isosceles", "right", "scalene"},
                 center : {<<30, 70>>},
                 size : {80 * Unit, 200 * Unit},
                 edge_points : PerPart(3, 10, 25)]
        Branch(b) ==
            LET t == Get(params, "triangle_type", b.choice)
            IN  IF t = "equilateral"
                THEN {[base_angle |-> 0, legs |-> <<0, 0>>, offsets |-> <<>>]}
                ELSE IF t = "isosceles"
                THEN {[base_angle |-> a, legs |-> <<0, 0>>, offsets |-> <<>>] :
                        a \in {5236, 10472}}
                ELSE IF t = "right"
                THEN {[base_angle |-> 0, legs |-> l, offsets |-> <<>>] :
                        l \in {<<70, 130>>, <<130, 70>>}}
                ELSE {[base_angle |-> 0, legs |-> <<0, 0>>, offsets |-> o] :
                        o \in {<<<<-100, 100>>, <<100, -100>>, <<0, 50>>>>,
                               <<<<0, 0>>, <<0, 0>>, <<0, 0>>>>}}
    IN  UNION {{b @@ x : x \in Branch(b)} :
                b \in {c \in Base :
                        "triangle_type" \in DOMAIN params =>
                            c.choice = "equilateral"}}

\* _generate_triangle_variations: the points and the metadata
generate_triangle_variations(params, rnd) ==
    LET triangle_type == Get(params, "triangle_type", rnd.choice)
        center == OnCanvas(rnd.center)
        size == rnd.size
        along == (size * SinAny(rnd.base_angle)) \div Scale
        down == (size * CosAny(rnd.base_angle)) \div Scale
        open ==
            IF triangle_type = "equilateral"
            THEN <<Polar(center, size, 0), Polar(center, size, 20944),
                   Polar(center, size, 41888)>>
            ELSE IF triangle_type = "isosceles"
            THEN <<PAdd(<<0, size>>, center), PAdd(<<-along, -down>>, center),
                   PAdd(<<along, -down>>, center)>>
            ELSE IF triangle_type = "right"
            THEN <<center,
                   PAdd(<<(size * rnd.legs[1]) \div 100, 0>>, center),
                   PAdd(<<0, (size * rnd.legs[2]) \div 100>>, center)>>
            ELSE [i \in 1..3 |->
                    PAdd(center, <<(size * rnd.offsets[i][1]) \div 100,
                                   (size * rnd.offsets[i][2]) \div 100>>)]
        \* np.vstack([vertices, vertices[0]])
        vertices == open \o <<open[1]>>
        Edge(i) == EdgeStroke(vertices[i + 1], vertices[i + 2], 1, 1,
                              rnd.edge_points[i + 1])
    IN  [points |-> Flatten([j \in 1..(Len(vertices) - 1) |-> Edge(j - 1)]),
         metadata |-> [triangle_type |-> triangle_type, size |-> size,
                       vertices |-> open]]

\* the draws of _add_human_variations: the normal deviates in units of the
\* standard deviation, the tremor strength in hundredths, the pressures
HumanDraws ==
    [deviate : {-3, 3}, tremor_strength : {50, 150}, pressure : {<<70, 130>>}]

\* _add_human_variations on the array and the dict with the given ids: the
\* heaps afterwards and the array returned, or the exception raised
add_human_variations(arr, dct, points, metadata, rnd) ==
    LET pts == Contents(arr, points)
        drawing_speed == Get(dct[metadata], "drawing_speed", 100)
        speed_noise == (noise_level * (200 - drawing_speed)) \div 100
        tremor_noise == (noise_level * 30 * rnd.tremor_strength) \div 10000
        noise(i) == <<rnd.deviate * speed_noise * (1 - 2 * (i % 2)),
                      -rnd.deviate * speed_noise>>
        tremor(i) == <<rnd.deviate * tremor_noise,
                       rnd.deviate * tremor_noise * (1 - 2 * (i % 2))>>
        pressure == [i \in 1..Len(pts) |-> rnd.pressure[1 + (i % 2)]]
        moved == [i \in 1..Len(pts) |-> PAdd(PAdd(pts[i], noise(i)), tremor(i))]
    IN  IF Len(pts) = 0
        THEN [arrays |-> arr, dicts |-> dct, points |-> points, raised |-> ""]
        ELSE IF speed_noise < 0
        \* np.random.normal: ValueError("scale < 0")
        THEN [arrays |-> arr, dicts |-> dct, points |-> NoView,
              raised |-> "ValueError"]
        ELSE [arrays |-> Alloc(arr, moved),
              dicts |-> [dct EXCEPT ![metadata] = ("pressure" :> pressure) @@ @],
              points |-> WholeView(arr, moved),
              raised |-> ""]

-----------------------------------------------------------------------------
(* HighQualityShapeGenerator.generate_shape.  args is <<shape_type,        *)
(* variation_params>>; the array and the dict the generator returns are    *)
(* the only objects on the heap; ret is the StrokeData returned.           *)

\* the lookup with a default: self.shape_categories.get(shape_type,
\* self._generate_line_variations)
DispatchWithDefault(shape_type) ==
    [raised |-> "",
     generator_func |-> Get(shape_categories, shape_type,
                            "_generate_line_variations")]

\* the membership test and the lookup of generate_shape
Dispatch(shape_type) ==
    IF shape_type \notin DOMAIN shape_categories
    THEN [raised |-> "ValueError", generator_func |-> ""]
    ELSE [raised |-> "", generator_func |-> shape_categories[shape_type]]

ShapeTypes == DOMAIN shape_categories \cup {"heart", ""}

ParamDicts ==
    {<<>>}
    \cup {[line_type |-> t] :
            t \in {"straight", "slightly_curved", "dashed", "zigzag"}}
    \cup {[circle_type |-> t] : t \in {"perfect", "wobbly", "spiral", "blob"}}
    \cup {[rect_type |-> t] :
            t \in {"sharp_corners", "rounded_corners", "tilted", "square"}}
    \cup {[triangle_type |-> t] :
            t \in {"equilateral", "isosceles", "right", "scalene", "obtuse"}}

VariationParams == {None} \cup {<<d>> : d \in ParamDicts}

InitGenerate ==
    /\ pc = "generate_shape"
    /\ args \in ShapeTypes \X VariationParams
    /\ fn = ""
    /\ ret = <<>>
    /\ error = ""
    /\ IdleAugmenter
    /\ IdleBulk

\* the locals points and metadata of generate_shape
GeneratedPoints ==
    LET b == CHOOSE b \in DOMAIN arrays : TRUE
    IN  [buf |-> b, off |-> 0, len |-> Len(arrays[b])]

GeneratedMetadata == CHOOSE d \in DOMAIN dicts : TRUE

genUnchanged == <<stroke, num_augmentations, augmented, augmented_strokes,
                  selected_augs, remaining, applied, input0, args>>

\* if shape_type not in self.shape_categories: raise ValueError, else the
\* call of the generator
GenerateShape ==
    /\ pc = "generate_shape"
    /\ fn' = "generate_shape"
    /\ LET d == Dispatch(args[1])
       IN  IF d.raised # ""
           THEN pc' = "raised" /\ error' = d.raised
           ELSE pc' = d.generator_func /\ error' = error
    /\ UNCHANGED <<bulkVars, genUnchanged, arrays, dicts, ret>>

\* points, metadata = generator_func(variation_params or {})
Generates(r) ==
    /\ arrays' = Alloc(arrays, r.points)
    /\ dicts' = (NewId(dicts) :> r.metadata) @@ dicts
    /\ pc' = "_add_human_variations"
    /\ UNCHANGED <<bulkVars, genUnchanged, fn, ret, error>>

GenerateLineVariations ==
    /\ pc = "_generate_line_variations"
    /\ \E rnd \in LineDraws(OrEmptyDict(args[2])) :
        Generates(generate_line_variations(OrEmptyDict(args[2]), rnd))

GenerateCircleVariations ==
    /\ pc = "_generate_circle_variations"
    /\ \E rnd \in CircleDraws(OrEmptyDict(args[2])) :
        Generates(generate_circle_variations(OrEmptyDict(args[2]), rnd))

GenerateRectangleVariations ==
    /\ pc = "_generate_rectangle_variations"
    /\ \E rnd \in RectangleDraws(OrEmptyDict(args[2])) :
        Generates(generate_rectangle_variations(OrEmptyDict(args[2]), rnd))

GenerateTriangleVariations ==
    /\ pc = "_generate_triangle_variations"
    /\ \E rnd \in TriangleDraws(OrEmptyDict(args[2])) :
        Generates(generate_triangle_variations(OrEmptyDict(args[2]), rnd))

\* a generator whose body is `pass` returns None, and unpacking None into
\* points, metadata raises TypeError
GeneratePlaceholder ==
    /\ pc \in Placeholders
    /\ pc' = "raised"
    /\ error' = "TypeError"
    /\ UNCHANGED <<bulkVars, genUnchanged, arrays, dicts, fn, ret>>

\* points = self._add_human_variations(points, metadata), then the return
\* of StrokeData(points, shape_type, metadata)
AddHumanVariations ==
    /\ pc = "_add_human_variations"
    /\ \E rnd \in HumanDraws :
        LET r == add_human_variations(arrays, dicts, GeneratedPoints,
                                      GeneratedMetadata, rnd)
        IN  IF r.raised # ""
            THEN /\ pc' = "raised"
                 /\ error' = r.raised
                 /\ arrays' = <<>>
                 /\ dicts' = <<>>
                 /\ ret' = ret
            ELSE /\ pc' = "returned"
                 /\ error' = error
                 /\ arrays' = Collect(r.arrays, {r.points.buf})
                 /\ dicts' = r.dicts
                 /\ ret' = [points |-> r.points, shape_label |-> args[1],
                            metadata |-> GeneratedMetadata]
    /\ UNCHANGED <<bulkVars, genUnchanged, fn>>

NextGenerate ==
    \/ GenerateShape
    \/ GenerateLineVariations
    \/ GenerateCircleVariations
    \/ GenerateRectangleVariations
    \/ GenerateTriangleVariations
    \/ GeneratePlaceholder
    \/ AddHumanVariations

SpecGenerate == InitGenerate /\ [][NextGenerate]_vars

-----------------------------------------------------------------------------
(* Properties of generate_shape *)

InGenerate == pc = "generate_shape" \/ fn = "generate_shape"

RealCategories == {"line", "rectangle", "circle", "triangle"}

\* C9: a call of generate_shape with a category outside the category set
\* raises the unknown-category error (ValueError) and returns no stroke,
\* and neither a generator nor the human-variation step runs: the call is
\* at its start or has raised, with no array and no dict made.
UnknownCategoryFails ==
    (InGenerate /\ args[1] \notin DOMAIN shape_categories) =>
        /\ pc \in {"generate_shape", "raised"}
        /\ pc = "raised" => error = "ValueError"
        /\ ret = <<>>
        /\ arrays = <<>>
        /\ dicts = <<>>

UnknownCategoryWitness ==
    /\ fn = "generate_shape"
    /\ args[1] = "heart"
    /\ pc = "raised"
    /\ error = "ValueError"

\* C10: a call of generate_shape for line, rectangle, circle or triangle,
\* with any parameters, never raises and never stops short of returning,
\* and the stroke it returns has at least one point and the requested
\* category as its label.
RealCategoryReturnsStroke ==
    (InGenerate /\ args[1] \in RealCategories) =>
        /\ pc # "raised"
        /\ pc # "returned" => ENABLED NextGenerate
        /\ pc = "returned" =>
            /\ Len(Value(arrays, dicts, ret).points) > 0
            /\ ret.shape_label = args[1]

\* a dashed line of three dashes, asked for by an unknown line type
RealCategoryWitness ==
    /\ fn = "generate_shape"
    /\ pc = "returned"
    /\ args = <<"line", <<[line_type |-> "zigzag"]>>>>
    /\ ret.shape_label = "line"
    /\ Len(Value(arrays, dicts, ret).points) = 15
    /\ "pressure" \in DOMAIN Value(arrays, dicts, ret).metadata

\* C11, as claimed: a call of generate_shape for a declared category whose
\* generator is a placeholder never raises, and what it returns is an empty
\* result.  Violated: the placeholder returns None, and unpacking None into
\* points, metadata raises TypeError.
PlaceholderYieldsEmpty ==
    (InGenerate /\ args[1] \in DOMAIN shape_categories \ RealCategories) =>
        /\ pc # "raised"
        /\ pc = "returned" => Len(Value(arrays, dicts, ret).points) = 0

\* the metadata key under which each generator records the sub-style, and
\* the keys under which it records the nominal size
StyleKey(shape_type) ==
    CASE shape_type = "line" -> "line_type"
      [] shape_type = "circle" -> "circle_type"
      [] shape_type = "rectangle" -> "rect_type"
      [] shape_type = "triangle" -> "triangle_type"

SizeKeys(shape_type) ==
    CASE shape_type = "line" -> {"length"}
      [] shape_type = "circle" -> {"radius"}
      [] shape_type = "rectangle" -> {"width", "height"}
      [] shape_type = "triangle" -> {"size"}

ReturnedReal ==
    /\ fn = "generate_shape"
    /\ pc = "returned"
    /\ args[1] \in RealCategories

ReturnedMetadata == Value(arrays, dicts, ret).metadata

\* C26, as claimed: every stroke generate_shape returns for line, circle,
\* rectangle or triangle carries in its metadata the chosen sub-style, a
\* nominal size and a nominal drawing_speed between 0.5 and 2.0, the speed
\* from which the noise scale of the human variations is computed.
MetadataRecordsStyleSizeSpeed ==
    ReturnedReal =>
        /\ StyleKey(args[1]) \in DOMAIN ReturnedMetadata
        /\ SizeKeys(args[1]) \subseteq DOMAIN ReturnedMetadata
        /\ "drawing_speed" \in DOMAIN ReturnedMetadata
        /\ 50 <= ReturnedMetadata["drawing_speed"]
        /\ ReturnedMetadata["drawing_speed"] <= 200

\* C26, what the code ensures instead: the sub-style and the size are
\* recorded for the four categories, the drawing speed for lines only.
MetadataRecordsStyleAndSize ==
    ReturnedReal =>
        /\ StyleKey(args[1]) \in DOMAIN ReturnedMetadata
        /\ SizeKeys(args[1]) \subseteq DOMAIN ReturnedMetadata
        /\ "drawing_speed" \in DOMAIN ReturnedMetadata <=> args[1] = "line"
        /\ args[1] = "line" =>
            /\ 50 <= ReturnedMetadata["drawing_speed"]
            /\ ReturnedMetadata["drawing_speed"] <= 200

CircleWithoutSpeedWitness ==
    /\ ReturnedReal
    /\ args[1] = "circle"
    /\ "circle_type" \in DOMAIN ReturnedMetadata
    /\ "drawing_speed" \notin DOMAIN ReturnedMetadata

\* the part of C30 about generate_shape alone: the stroke it returns has one
\* pressure entry per point
GeneratedPressurePerPoint ==
    ReturnedReal =>
        /\ "pressure" \in DOMAIN ReturnedMetadata
        /\ Len(ReturnedMetadata["pressure"]) = Len(Value(arrays, dicts, ret).points)

-----------------------------------------------------------------------------
(* EnhancedStrokeDataset._generate_training_data                           *)
(* (training/enhanced_training.py).  args is [num_samples,                 *)
(* use_augmentation, augmentation_ratio], the ratio in tenths.  The loop   *)
(* is modelled with what its callees do to it: generate_shape raises or    *)
(* returns a stroke, augment_stroke returns the stroke and its variants.   *)
(* A stroke is named by its label, the number of its sample and the        *)
(* number of its variant (0 for the generated stroke); its points are not  *)
(* computed here.  augment_stroke does not raise in this loop: a           *)
(* generated stroke has at least 15 points, and no selection of            *)
(* transforms brings _time_pressure_variation an empty stroke from there.  *)

\* list(self.shape_generator.shape_categories.keys())
shape_types ==
    <<"line", "rectangle", "circle", "triangle", "arrow", "star", "diamond",
      "oval", "pentagon", "hexagon">>

\* num_samples // len(shape_types)
SamplesPerShape == args.num_samples \div Len(shape_types)

\* generate_shape(shape_type, variation_params) raises: the exception
GenerateRaises(shape_type) ==
    LET d == Dispatch(shape_type)
    IN  IF d.raised # "" THEN d.raised
        ELSE IF d.generator_func \in Placeholders THEN "TypeError"
        ELSE ""

\* the stroke generate_shape returns for a sample
SampleStroke(shape_type, sample) ==
    [shape_label |-> shape_type, sample |-> sample, variant |-> 0]

\* augment_stroke(stroke, int(self.augmentation_ratio))[1:]
Variants(generated, augmentation_ratio) ==
    [v \in 1..(augmentation_ratio \div 10) |->
        [generated EXCEPT !.variant = v]]

\* what one successful pass through the try block appends to strokes
SampleStrokes(shape_type, sample) ==
    <<SampleStroke(shape_type, sample)>>
    \o (IF args.use_augmentation
        THEN Variants(SampleStroke(shape_type, sample),
                      args.augmentation_ratio)
        ELSE <<>>)

\* except Exception: break, which leaves the inner loop
AfterFailureBreak(done) == SamplesPerShape

\* except Exception: logging.warning(...); continue, which goes on with the
\* next iteration of the inner loop
AfterFailure(done) == done + 1

\* the calls tried
BulkInputs ==
    [num_samples : {0, 9, 10, 25},
     use_augmentation : BOOLEAN,
     augmentation_ratio : {0, 15, 20}]

InitBulk ==
    /\ pc = "_generate_training_data"
    /\ args \in BulkInputs
    /\ fn = ""
    /\ ret = <<>>
    /\ error = ""
    /\ IdleAugmenter
    /\ IdleBulk

\* strokes = [], and the first shape_type
BulkEnter ==
    /\ pc = "_generate_training_data"
    /\ pc' = "for"
    /\ fn' = "_generate_training_data"
    /\ strokes' = <<>>
    /\ shape_index' = 1
    /\ samples_done' = 0
    /\ UNCHANGED <<augVars, error, args, ret, warnings, valid_strokes>>

\* a pass through the try block in which nothing raises
SampleSucceeds ==
    /\ pc = "for"
    /\ shape_index <= Len(shape_types)
    /\ samples_done < SamplesPerShape
    /\ GenerateRaises(shape_types[shape_index]) = ""
    /\ strokes' = strokes \o SampleStrokes(shape_types[shape_index],
                                           samples_done + 1)
    /\ samples_done' = samples_done + 1
    /\ UNCHANGED <<augVars, pc, error, fn, args, ret, shape_index, warnings,
                   valid_strokes>>

\* a pass in which generate_shape raises: nothing is appended, the except
\* clause logs a warning
SampleFails ==
    /\ pc = "for"
    /\ shape_index <= Len(shape_types)
    /\ samples_done < SamplesPerShape
    /\ GenerateRaises(shape_types[shape_index]) # ""
    /\ warnings' = Append(warnings, shape_types[shape_index])
    /\ samples_done' = AfterFailure(samples_done)
    /\ UNCHANGED <<augVars, pc, error, fn, args, ret, shape_index, strokes,
                   valid_strokes>>

\* the inner loop is exhausted: the next shape_type
NextShape ==
    /\ pc = "for"
    /\ shape_index <= Len(shape_types)
    /\ samples_done >= SamplesPerShape
    /\ shape_index' = shape_index + 1
    /\ samples_done' = 0
    /\ UNCHANGED <<augVars, pc, error, fn, args, ret, strokes, warnings,
                   valid_strokes>>

\* return strokes
BulkReturn ==
    /\ pc = "for"
    /\ shape_index > Len(shape_types)
    /\ pc' = "returned"
    /\ ret' = strokes
    /\ UNCHANGED <<augVars, bulkVars, error, fn, args>>

NextBulk ==
    \/ BulkEnter
    \/ SampleSucceeds
    \/ SampleFails
    \/ NextShape
    \/ BulkReturn

SpecBulk == InitBulk /\ [][NextBulk]_vars

-----------------------------------------------------------------------------
(* Properties of _generate_training_data *)

InBulk == pc = "_generate_training_data" \/ fn = "_generate_training_data"

\* the strokes of every sample of the categories that have a generator, in
\* the order of the loops
StrokesOfSuccessfulSamples ==
    Flatten([i \in 1..Len(shape_types) |->
        IF shape_types[i] \in RealCategories
        THEN Flatten([k \in 1..SamplesPerShape |->
                        SampleStrokes(shape_types[i], k)])
        ELSE <<>>])

\* the number of entries of the sequence log that equal entry
Occurrences(log, entry) ==
    Cardinality({i \in 1..Len(log) : log[i] = entry})

\* C14: a call of _generate_training_data never raises; every step of its
\* loops from a sample goes to the next sample of the same category,
\* whether the sample raised or not; and when it returns, each category
\* has had samples_per_shape samples, every one either logged as failed or
\* present in the result, which is the strokes of all successful samples.
FailedSamplesAreSkipped ==
    /\ [](InBulk => pc # "raised")
    /\ [][(pc = "for" /\ samples_done < SamplesPerShape
                /\ shape_index <= Len(shape_types))
            => /\ pc' = "for"
               /\ shape_index' = shape_index
               /\ samples_done' = samples_done + 1]_vars
    /\ []((InBulk /\ pc = "returned") =>
            /\ ret = StrokesOfSuccessfulSamples
            /\ \A i \in 1..Len(shape_types) :
                Occurrences(warnings, shape_types[i])
                + Cardinality({j \in 1..Len(ret) :
                                /\ ret[j].shape_label = shape_types[i]
                                /\ ret[j].variant = 0})
                    = SamplesPerShape)

\* a call with two samples per category and two variants per sample has
\* returned: it logged failures and returned strokes
FailedSamplesAreSkippedWitness ==
    /\ InBulk
    /\ pc = "returned"
    /\ SamplesPerShape = 2
    /\ args.use_augmentation
    /\ Occurrences(warnings, "arrow") = 2
    /\ Len(ret) = 24
    /\ ret[Len(ret)] = [shape_label |-> "triangle", sample |-> 2, variant |-> 2]

-----------------------------------------------------------------------------
(* EnhancedStrokeDataset.__init__ (training/enhanced_training.py): the     *)
(* call of _generate_training_data, then, if validation is enabled, of     *)
(* _validate_and_filter_data.  args is [num_samples, use_augmentation,     *)
(* augmentation_ratio, validation_enabled].  Whether validate_stroke       *)
(* accepts a stroke depends on the points drawn at random for it: each     *)
(* stroke is accepted or rejected.                                         *)

\* the datasets built
BuildInputs ==
    [num_samples : {9, 10},
     use_augmentation : BOOLEAN,
     augmentation_ratio : {10},
     validation_enabled : BOOLEAN]

InitDataset ==
    /\ pc = "__init__"
    /\ args \in BuildInputs
    /\ fn = ""
    /\ ret = <<>>
    /\ error = ""
    /\ IdleAugmenter
    /\ IdleBulk

\* self.strokes = self._generate_training_data(num_synthetic_samples): the
\* call
DatasetEnter ==
    /\ pc = "__init__"
    /\ pc' = "_generate_training_data"
    /\ UNCHANGED <<augVars, bulkVars, error, fn, args, ret>>

\* the strokes of list for which validate_stroke(stroke)['is_valid'] holds,
\* as told by the mask
RECURSIVE Kept(_, _)
Kept(list, mask) ==
    IF list = <<>> THEN <<>>
    ELSE (IF Head(mask) THEN <<Head(list)>> ELSE <<>>)
         \o Kept(Tail(list), Tail(mask))

\* if validation_enabled: the call of _validate_and_filter_data, up to the
\* end of its loop over the strokes
ValidateStrokes ==
    /\ pc = "returned"
    /\ fn = "_generate_training_data"
    /\ "validation_enabled" \in DOMAIN args
    /\ args.validation_enabled
    /\ fn' = "_validate_and_filter_data"
    /\ strokes' = ret
    /\ \E mask \in [1..Len(ret) -> BOOLEAN] : valid_strokes' = Kept(ret, mask)
    /\ pc' = "logging.info"
    /\ UNCHANGED <<augVars, error, args, ret, shape_index, samples_done,
                   warnings>>

\* logging.info(f"... ({100*len(valid_strokes)/len(strokes):.1f}%)")
LogKept ==
    /\ pc = "logging.info"
    /\ IF Len(strokes) = 0
       THEN pc' = "raised" /\ error' = "ZeroDivisionError"
       ELSE pc' = "validate_dataset_balance" /\ error' = error
    /\ UNCHANGED <<augVars, bulkVars, fn, args, ret>>

\* if not balance_info['balanced']: the warning reads
\* balance_info['balance_ratio']
BalanceRatioFound(balance_info) ==
    balance_info.balanced \/ "balance_ratio" \in DOMAIN balance_info

\* balance_info = self.validator.validate_dataset_balance(valid_strokes),
\* the warning, and return valid_strokes
CheckBalance ==
    /\ pc = "validate_dataset_balance"
    /\ LET labels == [i \in 1..Len(valid_strokes) |->
                        valid_strokes[i].shape_label]
           balance_info == validate_dataset_balance(labels)
       IN  IF ~BalanceRatioFound(balance_info)
           THEN /\ pc' = "raised"
                /\ error' = "KeyError"
                /\ UNCHANGED <<ret, warnings>>
           ELSE /\ pc' = "returned"
                /\ error' = error
                /\ ret' = valid_strokes
                /\ warnings' = IF balance_info.balanced THEN warnings
                               ELSE Append(warnings, "imbalanced")
    /\ UNCHANGED <<augVars, fn, args, strokes, shape_index, samples_done,
                   valid_strokes>>

\* self.strokes = the list returned, and the label mappings
DatasetDone ==
    /\ pc = "returned"
    /\ \/ fn = "_validate_and_filter_data"
       \/ /\ fn = "_generate_training_data"
          /\ "validation_enabled" \in DOMAIN args
          /\ ~args.validation_enabled
    /\ strokes' = ret
    /\ fn' = "__init__"
    /\ pc' = "done"
    /\ UNCHANGED <<augVars, error, args, ret, shape_index, samples_done,
                   warnings, valid_strokes>>

NextDataset ==
    \/ DatasetEnter
    \/ BulkEnter
    \/ SampleSucceeds
    \/ SampleFails
    \/ NextShape
    \/ BulkReturn
    \/ ValidateStrokes
    \/ LogKept
    \/ CheckBalance
    \/ DatasetDone

SpecDataset == InitDataset /\ [][NextDataset]_vars

-----------------------------------------------------------------------------
(* Properties of EnhancedStrokeDataset.__init__ *)

\* C29, as claimed: building the dataset with validation enabled always
\* completes without raising, also when no stroke was generated and when no
\* generated stroke passes validation: _validate_and_filter_data then
\* returns an empty list.
\* (At validate_dataset_balance the step CheckBalance is always possible:
\* it has no further condition.)
DatasetBuildNeverRaises ==
    args.validation_enabled =>
        /\ pc # "raised"
        /\ pc \notin {"done", "validate_dataset_balance"}
            => ENABLED NextDataset
        /\ (pc = "returned" /\ fn = "_validate_and_filter_data"
                /\ valid_strokes = <<>>) => ret = <<>>

\* C29, what the code ensures instead: the build raises ZeroDivisionError
\* when no stroke was generated, KeyError when strokes were generated and
\* none was kept, and completes otherwise.
DatasetBuildRaisesOnEmpty ==
    args.validation_enabled =>
        /\ pc = "raised" =>
            \/ error = "ZeroDivisionError" /\ strokes = <<>>
            \/ error = "KeyError" /\ strokes # <<>> /\ valid_strokes = <<>>
        /\ pc = "validate_dataset_balance" => strokes # <<>>
        /\ (pc = "returned" /\ fn = "_validate_and_filter_data")
            => ret = valid_strokes /\ ret # <<>>
        /\ pc \notin {"done", "raised", "validate_dataset_balance"}
            => ENABLED NextDataset

\* fewer samples asked for than there are categories: nothing is generated
\* and the percentage of the log line divides by zero
DatasetBuildWitness ==
    /\ args.num_samples = 9
    /\ args.validation_enabled
    /\ pc = "raised"
    /\ error = "ZeroDivisionError"
    /\ strokes = <<>>

-----------------------------------------------------------------------------
(* The whole program: one call of any of the operations above *)

Init ==
    \/ InitAugment
    \/ InitRefine
    \/ InitDetect
    \/ InitValidate
    \/ InitGenerate
    \/ InitBulk
    \/ InitDataset

Next ==
    \/ NextAugment
    \/ NextRefine
    \/ NextDetect
    \/ NextValidate
    \/ NextGenerate
    \/ NextBulk
    \/ NextDataset

Spec == Init /\ [][Next]_vars

=============================================================================
